---- MODULE Spec2Model ----
(***************************************************************************)
(* Pet-photo feed of WhiteEagleNutrition: the cursor codec, the listing    *)
(* operation of the two post stores (flat file: backend/server.js,         *)
(* Postgres: api/_petFeedStore.js + api/posts.js), the create/delete      *)
(* handlers over the stores, and the public-feed loader of the page        *)
(* (assets/js/pet-photos-app.js).                                          *)
(*                                                                         *)
(* Strings are sequences of UTF-16 code units (48 = "0", 97 = "a", ...).   *)
(* A value read from a query string is a record [t, v]: t = "undefined"    *)
(* when the parameter is absent, t = "string" with the characters in v.    *)
(***************************************************************************)
EXTENDS Integers, Sequences, FiniteSets, TLC

VARIABLES
  filePosts,  \* flat file: the posts array of POSTS_FILE (creation order)
  pgRows,     \* Postgres: the rows of pet_photo_posts
  reqLimit,   \* the list request's raw ?limit
  reqSort,    \* the list request's raw ?sort
  reqQ,       \* the list request's raw ?q
  flatTrav,   \* a client paging through the flat-file deployment
  pgTrav,     \* a client paging through the Postgres deployment
  backend,    \* the deployment requests are sent to: "flat" or "pg"
  adminToken, \* ADMIN_TOKEN as the server holds it
  fileState,  \* POSTS_FILE on disk: "complete", "truncated" or "partial"
  writeChain, \* createStore's promise chain: one link per writeAll call
  images,     \* the image files of UPLOADS_DIR / the objects of the blob store
  removals,   \* image removals issued (unlink / del) and not yet settled
  reqs,       \* the HTTP requests: parameters, position in the handler, response
  codec,      \* one cursor on its way through makeCursor, parseCursor and a listing
  state       \* pet-photos-app.js: the page's state object and its requests in flight

listVars == <<filePosts, pgRows, reqLimit, reqSort, reqQ, flatTrav, pgTrav>>

apiVars == <<backend, adminToken, fileState, writeChain, images, removals, reqs, state>>

vars == <<filePosts, pgRows, reqLimit, reqSort, reqQ, flatTrav, pgTrav,
          backend, adminToken, fileState, writeChain, images, removals, reqs, codec,
          state>>

----------------------------------------------------------------------------
(* Bounds of the model *)

\* number of candidate posts the stores are drawn from
MaxPosts == 4

\* pages one traversal may request (the Postgres traversal need not end)
MaxPages == MaxPosts + 2

\* HTTP requests the server receives in one run
MaxReqs == 3

----------------------------------------------------------------------------
(* JavaScript values *)

Undefined == [t |-> "undefined", v |-> <<>>]
StrVal(s) == [t |-> "string", v |-> s]

\* JS numbers that occur: an integer or NaN
Num(n) == [k |-> "num", n |-> n]
NaN == [k |-> "nan", n |-> 0]

Min(a, b) == IF a < b THEN a ELSE b
Max(a, b) == IF a > b THEN a ELSE b

IsSpace(c) == c = 32 \/ c = 9 \/ c = 10

RECURSIVE TrimStart(_)
TrimStart(s) ==
  IF s # <<>> /\ IsSpace(Head(s)) THEN TrimStart(Tail(s)) ELSE s

RECURSIVE TrimEnd(_)
TrimEnd(s) ==
  IF s # <<>> /\ IsSpace(s[Len(s)]) THEN TrimEnd(SubSeq(s, 1, Len(s) - 1)) ELSE s

\* String.prototype.trim
Trim(s) == TrimEnd(TrimStart(s))

\* the string as it is, whatever n
SliceNothing(s, n) == s

\* String.prototype.slice(0, n)
Slice(s, n) == SubSeq(s, 1, Min(n, Len(s)))

LowerChar(c) == IF c \in 65..90 THEN c + 32 ELSE c

\* String.prototype.toLowerCase / SQL LOWER
ToLowerCase(s) == [i \in DOMAIN s |-> LowerChar(s[i])]

\* String.prototype.includes
Includes(hay, needle) ==
  \E i \in 1..(Len(hay) - Len(needle) + 1) :
    SubSeq(hay, i, i + Len(needle) - 1) = needle

IsDigit(c) == c \in 48..57

RECURSIVE DigitsValue(_)
DigitsValue(s) ==
  IF s = <<>> THEN 0
  ELSE 10 * DigitsValue(SubSeq(s, 1, Len(s) - 1)) + (s[Len(s)] - 48)

\* Number(<string>): whitespace is trimmed, "" is 0, an optionally signed
\* run of decimal digits is that integer, anything else is NaN
StringToNumber(s) ==
  LET b == Trim(s)
      neg == b # <<>> /\ Head(b) = 45
      d == IF neg THEN Tail(b) ELSE b
  IN  IF b = <<>> THEN Num(0)
      ELSE IF d # <<>> /\ \A i \in DOMAIN d : IsDigit(d[i])
           THEN Num(IF neg THEN 0 - DigitsValue(d) ELSE DigitsValue(d))
           ELSE NaN

\* Number(<query value>)
ToNumber(x) == IF x.t = "undefined" THEN NaN ELSE StringToNumber(x.v)

\* truthiness of a query value: undefined and "" are falsy
Truthy(x) == x.t = "string" /\ x.v # <<>>

safeText(value, maxLen) ==
  IF value.t # "string" THEN <<>>
  ELSE LET trimmed == Trim(value.v)
       IN  IF maxLen = 0 THEN trimmed ELSE Slice(trimmed, maxLen)

\* lexicographic order of two strings by code unit (JS < on strings)
RECURSIVE CodeUnitLess(_, _)
CodeUnitLess(a, b) ==
  IF b = <<>> THEN FALSE
  ELSE IF a = <<>> THEN TRUE
  ELSE IF Head(a) # Head(b) THEN Head(a) < Head(b)
  ELSE CodeUnitLess(Tail(a), Tail(b))

\* weights of a collation that puts letters before digits
PrimaryWeightLettersFirst(c) ==
  IF c \in 48..57 THEN 2000 + c
  ELSE IF c \in 65..90 THEN 1000 + (c - 65)
  ELSE IF c \in 97..122 THEN 1000 + (c - 97)
  ELSE c

\* collation weights of String.prototype.localeCompare (root collation):
\* punctuation before digits before letters; letters compare without case
\* first, and lower case sorts before upper case only to break a tie
PrimaryWeight(c) ==
  IF c \in 48..57 THEN 1000 + c
  ELSE IF c \in 65..90 THEN 2000 + (c - 65)
  ELSE IF c \in 97..122 THEN 2000 + (c - 97)
  ELSE c

TertiaryWeight(c) == IF c \in 65..90 THEN 1 ELSE 0

RECURSIVE WeightCompare(_, _, _)
WeightCompare(a, b, level) ==
  LET W(c) == IF level = 1 THEN PrimaryWeight(c) ELSE TertiaryWeight(c)
  IN  IF a = <<>> /\ b = <<>> THEN 0
      ELSE IF a = <<>> THEN 0 - 1
      ELSE IF b = <<>> THEN 1
      ELSE IF W(Head(a)) < W(Head(b)) THEN 0 - 1
      ELSE IF W(Head(a)) > W(Head(b)) THEN 1
      ELSE WeightCompare(Tail(a), Tail(b), level)

\* a.localeCompare(b): negative, 0 or positive
localeCompare(a, b) ==
  IF WeightCompare(a, b, 1) # 0 THEN WeightCompare(a, b, 1)
  ELSE WeightCompare(a, b, 2)

----------------------------------------------------------------------------
(* Cursor codec.  A token is the base64url text of a JSON document; the     *)
(* model keeps what the document holds: whether it parses, and the JSON    *)
(* type and value of its createdAt and id members.  JSON.stringify writes  *)
(* a number as a JSON number and a Date as its ISO string, which has       *)
(* millisecond resolution.                                                 *)

\* no cursor: the parameter is absent, or nextCursor is null
NoCursor == [t |-> "undefined", ck |-> "missing", cn |-> 0, ik |-> "missing", is |-> <<>>]

\* a token that is not base64url JSON
GarbageCursor == [t |-> "garbage", ck |-> "missing", cn |-> 0, ik |-> "missing", is |-> <<>>]

NullParsed == [ok |-> FALSE, createdAt |-> 0, id |-> <<>>]

\* server.js makeCursor: createdAt is the record's number
FlatMakeCursor(createdAt, id) ==
  [t |-> "json", ck |-> "number", cn |-> createdAt, ik |-> "string", is |-> id]

\* server.js parseCursor
FlatParseCursor(cursor) ==
  IF cursor.t = "undefined" THEN NullParsed
  ELSE IF cursor.t # "json" THEN NullParsed
  ELSE IF cursor.ck # "number" \/ cursor.ik # "string" THEN NullParsed
  ELSE [ok |-> TRUE, createdAt |-> cursor.cn, id |-> cursor.is]

\* microseconds per millisecond: TIMESTAMPTZ keeps microseconds, a JS Date
\* and its ISO string keep milliseconds
MicrosPerMs == 1000

\* the Postgres driver hands created_at to the handler as a JS Date
DriverDate(createdAtMicros) == createdAtMicros \div MicrosPerMs

\* _petFeedStore.js makeCursor: createdAt is the row's Date, written by
\* JSON.stringify as an ISO string
PgMakeCursor(createdAtDate, id) ==
  [t |-> "json", ck |-> "isostring", cn |-> createdAtDate, ik |-> "string", is |-> id]

\* _petFeedStore.js parseCursor
PgParseCursor(cursor) ==
  IF cursor.t = "undefined" THEN NullParsed
  ELSE IF cursor.t # "json" THEN NullParsed
  ELSE IF cursor.ck \notin {"isostring", "badstring"} \/ cursor.ik # "string" THEN NullParsed
  ELSE IF cursor.ck = "badstring" THEN NullParsed
  ELSE [ok |-> TRUE, createdAt |-> cursor.cn, id |-> cursor.is]

\* '<iso>'::timestamptz
IsoToTimestamptz(isoMs) == isoMs * MicrosPerMs

----------------------------------------------------------------------------
(* The cursor token as text: JSON.stringify, Buffer's base64url and         *)
(* JSON.parse, on the characters.  The texts that occur are ASCII, so a    *)
(* character is one UTF-8 byte.                                            *)

\* the base64url alphabet: A-Z a-z 0-9 - _
SextetChar(v) ==
  IF v < 26 THEN 65 + v
  ELSE IF v < 52 THEN 97 + (v - 26)
  ELSE IF v < 62 THEN 48 + (v - 52)
  ELSE IF v = 62 THEN 45
  ELSE 95

\* the decoder reads both the base64url and the base64 alphabet; -1 for
\* any other character
Sextet(c) ==
  IF c \in 65..90 THEN c - 65
  ELSE IF c \in 97..122 THEN c - 97 + 26
  ELSE IF c \in 48..57 THEN c - 48 + 52
  ELSE IF c = 45 \/ c = 43 THEN 62
  ELSE IF c = 95 \/ c = 47 THEN 63
  ELSE 0 - 1

\* buf.toString('base64url'): three bytes to four characters, no padding
RECURSIVE Base64UrlEncode(_)
Base64UrlEncode(bytes) ==
  IF bytes = <<>> THEN <<>>
  ELSE IF Len(bytes) = 1
  THEN << SextetChar(bytes[1] \div 4), SextetChar((bytes[1] % 4) * 16) >>
  ELSE IF Len(bytes) = 2
  THEN << SextetChar(bytes[1] \div 4),
          SextetChar((bytes[1] % 4) * 16 + bytes[2] \div 16),
          SextetChar((bytes[2] % 16) * 4) >>
  ELSE << SextetChar(bytes[1] \div 4),
          SextetChar((bytes[1] % 4) * 16 + bytes[2] \div 16),
          SextetChar((bytes[2] % 16) * 4 + bytes[3] \div 64),
          SextetChar(bytes[3] % 64) >>
       \o Base64UrlEncode(SubSeq(bytes, 4, Len(bytes)))

\* the sextets of a token: decoding does not fail on a character outside
\* the alphabet, it passes over it
RECURSIVE Sextets(_)
Sextets(chars) ==
  IF chars = <<>> THEN <<>>
  ELSE IF Sextet(Head(chars)) < 0 THEN Sextets(Tail(chars))
  ELSE <<Sextet(Head(chars))>> \o Sextets(Tail(chars))

RECURSIVE SextetsToBytes(_)
SextetsToBytes(x) ==
  IF Len(x) < 2 THEN <<>>
  ELSE IF Len(x) = 2 THEN << x[1] * 4 + x[2] \div 16 >>
  ELSE IF Len(x) = 3
  THEN << x[1] * 4 + x[2] \div 16, (x[2] % 16) * 16 + x[3] \div 4 >>
  ELSE << x[1] * 4 + x[2] \div 16, (x[2] % 16) * 16 + x[3] \div 4, (x[3] % 4) * 64 + x[4] >>
       \o SextetsToBytes(SubSeq(x, 5, Len(x)))

\* Buffer.from(String(cursor), 'base64url')
Base64UrlDecode(chars) == SextetsToBytes(Sextets(chars))

\* the decimal digits of a natural number
RECURSIVE Digits(_)
Digits(n) == IF n < 10 THEN <<48 + n>> ELSE Digits(n \div 10) \o <<48 + (n % 10)>>

\* Number.prototype.toString of an integer
NumberToString(n) == IF n < 0 THEN <<45>> \o Digits(0 - n) ELSE Digits(n)

\* a string body written as it is
JsonEscapeNone(str) == str

\* the characters of a JSON string body: " and \ are escaped
RECURSIVE JsonEscape(_)
JsonEscape(str) ==
  IF str = <<>> THEN <<>>
  ELSE (IF Head(str) = 34 \/ Head(str) = 92 THEN <<92, Head(str)>> ELSE <<Head(str)>>)
       \o JsonEscape(Tail(str))

JsonQuote(str) == <<34>> \o JsonEscape(str) \o <<34>>

\* JSON values: a number, a string, a literal (null, true, false) or an
\* object given by its members in the order of the text
JNum(n) == [j |-> "number", n |-> n, s |-> <<>>, members |-> <<>>]
JStr(str) == [j |-> "string", n |-> 0, s |-> str, members |-> <<>>]
JLit(name) == [j |-> name, n |-> 0, s |-> <<>>, members |-> <<>>]
JObj(members) == [j |-> "object", n |-> 0, s |-> <<>>, members |-> members]
JUndefined == JLit("undefined")

\* JSON.stringify of a number or a string; NaN is written as null
JsonScalar(val) ==
  IF val.j = "number" THEN NumberToString(val.n)
  ELSE IF val.j = "string" THEN JsonQuote(val.s)
  ELSE <<110, 117, 108, 108>>

\* the keys "createdAt" and "id"
KeyCreatedAt == <<99, 114, 101, 97, 116, 101, 100, 65, 116>>
KeyId == <<105, 100>>

\* JSON.stringify({ createdAt, id })
StringifyCursor(createdAt, id) ==
  <<123>> \o JsonQuote(KeyCreatedAt) \o <<58>> \o JsonScalar(createdAt)
          \o <<44>> \o JsonQuote(KeyId) \o <<58>> \o JsonScalar(id) \o <<125>>

\* makeCursor of server.js and of _petFeedStore.js
makeCursor(createdAt, id) == Base64UrlEncode(StringifyCursor(createdAt, id))

(* JSON.parse.  The texts that occur hold scalars and objects of scalars,  *)
(* and their numbers are integers; a text is read as JSON.parse reads it   *)
(* or is a syntax error.                                                   *)

SyntaxError == [ok |-> FALSE, val |-> JUndefined, rest |-> <<>>]
Parsed(val, rest) == [ok |-> TRUE, val |-> val, rest |-> rest]

IsJsonSpace(c) == c = 32 \/ c = 9 \/ c = 10 \/ c = 13

RECURSIVE SkipSpace(_)
SkipSpace(text) ==
  IF text # <<>> /\ IsJsonSpace(Head(text)) THEN SkipSpace(Tail(text)) ELSE text

StartsWith(text, prefix) ==
  Len(text) >= Len(prefix) /\ SubSeq(text, 1, Len(prefix)) = prefix

\* a string, from the character after its opening quote
RECURSIVE ScanString(_, _)
ScanString(text, acc) ==
  IF text = <<>> THEN SyntaxError
  ELSE IF Head(text) = 34 THEN Parsed(JStr(acc), Tail(text))
  ELSE IF Head(text) = 92
  THEN IF Len(text) >= 2 /\ (text[2] = 34 \/ text[2] = 92 \/ text[2] = 47)
       THEN ScanString(SubSeq(text, 3, Len(text)), Append(acc, text[2]))
       ELSE SyntaxError
  ELSE IF Head(text) < 32 THEN SyntaxError
  ELSE ScanString(Tail(text), Append(acc, Head(text)))

RECURSIVE LeadingDigits(_)
LeadingDigits(text) ==
  IF text # <<>> /\ IsDigit(Head(text)) THEN 1 + LeadingDigits(Tail(text)) ELSE 0

\* a number: an optional minus and digits without a leading zero
ParseNumber(text) ==
  LET neg == Head(text) = 45
      d == IF neg THEN Tail(text) ELSE text
      k == LeadingDigits(d)
      n == DigitsValue(SubSeq(d, 1, k))
  IN  IF k = 0 \/ (k > 1 /\ d[1] = 48) THEN SyntaxError
      ELSE Parsed(JNum(IF neg THEN 0 - n ELSE n), SubSeq(d, k + 1, Len(d)))

ParseScalar(text) ==
  IF text = <<>> THEN SyntaxError
  ELSE IF Head(text) = 34 THEN ScanString(Tail(text), <<>>)
  ELSE IF Head(text) = 45 \/ IsDigit(Head(text)) THEN ParseNumber(text)
  ELSE IF StartsWith(text, <<110, 117, 108, 108>>)
  THEN Parsed(JLit("null"), SubSeq(text, 5, Len(text)))
  ELSE IF StartsWith(text, <<116, 114, 117, 101>>)
  THEN Parsed(JLit("true"), SubSeq(text, 5, Len(text)))
  ELSE IF StartsWith(text, <<102, 97, 108, 115, 101>>)
  THEN Parsed(JLit("false"), SubSeq(text, 6, Len(text)))
  ELSE SyntaxError

\* the members of an object, from the first character of a member
RECURSIVE ParseMembers(_, _)
ParseMembers(text, acc) ==
  IF text = <<>> \/ Head(text) # 34 THEN SyntaxError
  ELSE LET key == ScanString(Tail(text), <<>>)
           colon == IF key.ok THEN SkipSpace(key.rest) ELSE <<>>
           val == IF colon # <<>> /\ Head(colon) = 58
                  THEN ParseScalar(SkipSpace(Tail(colon)))
                  ELSE SyntaxError
           after == IF val.ok THEN SkipSpace(val.rest) ELSE <<>>
           members == Append(acc, [key |-> key.val.s, val |-> val.val])
       IN  IF after = <<>> THEN SyntaxError
           ELSE IF Head(after) = 125 THEN Parsed(JObj(members), Tail(after))
           ELSE IF Head(after) = 44 THEN ParseMembers(SkipSpace(Tail(after)), members)
           ELSE SyntaxError

ParseValue(text) ==
  LET t == SkipSpace(text)
  IN  IF t # <<>> /\ Head(t) = 123
      THEN LET m == SkipSpace(Tail(t))
           IN  IF m # <<>> /\ Head(m) = 125 THEN Parsed(JObj(<<>>), Tail(m))
               ELSE ParseMembers(m, <<>>)
      ELSE ParseScalar(t)

\* JSON.parse(json): ok is FALSE when it throws
JsonParse(text) ==
  LET r == ParseValue(text)
  IN  IF r.ok /\ SkipSpace(r.rest) = <<>> THEN r ELSE SyntaxError

\* obj[key]: the last member of that name, undefined when there is none
Member(obj, key) ==
  LET at == {i \in DOMAIN obj.members : obj.members[i].key = key}
  IN  IF at = {} THEN JUndefined
      ELSE obj.members[CHOOSE i \in at : \A k \in at : k <= i].val

\* !value
Falsy(val) ==
  \/ val.j \in {"null", "false", "undefined"}
  \/ (val.j = "number" /\ val.n = 0)
  \/ (val.j = "string" /\ val.s = <<>>)

(* Dates as text *)

Pad(n, width) ==
  LET d == Digits(n)
  IN  [i \in 1..(width - Len(d)) |-> 48] \o d

\* Date.prototype.toISOString of an instant of 1 January 1970, given in
\* milliseconds since the epoch
toISOString(ms) ==
  <<49, 57, 55, 48, 45, 48, 49, 45, 48, 49, 84>>
    \o Pad(ms \div 3600000, 2) \o <<58>> \o Pad((ms \div 60000) % 60, 2) \o <<58>>
    \o Pad((ms \div 1000) % 60, 2) \o <<46>> \o Pad(ms % 1000, 3) \o <<90>>

\* the text has the form YYYY-MM-DDTHH:mm:ss.sssZ with fields in range
IsIsoInstant(str) ==
  /\ Len(str) = 24
  /\ \A i \in {1, 2, 3, 4, 6, 7, 9, 10, 12, 13, 15, 16, 18, 19, 21, 22, 23} : IsDigit(str[i])
  /\ str[5] = 45 /\ str[8] = 45 /\ str[11] = 84 /\ str[14] = 58 /\ str[17] = 58
  /\ str[20] = 46 /\ str[24] = 90
  /\ DigitsValue(SubSeq(str, 6, 7)) \in 1..12
  /\ DigitsValue(SubSeq(str, 9, 10)) \in 1..31
  /\ DigitsValue(SubSeq(str, 12, 13)) \in 0..23
  /\ DigitsValue(SubSeq(str, 15, 16)) \in 0..59
  /\ DigitsValue(SubSeq(str, 18, 19)) \in 0..59

\* every string taken for a date
DateParseNeverNaN(str) == FALSE

\* Number.isNaN(Date.parse(str)): the strings that occur are instants as
\* toISOString writes them, or hold no date in any format
DateParseIsNaN(str) == ~IsIsoInstant(str)

(* parseCursor *)

NullCursor == [ok |-> FALSE, createdAt |-> JUndefined, id |-> JUndefined]

\* the document of a token: base64url to text, text to JSON
TokenDocument(cursor) == JsonParse(Base64UrlDecode(cursor.v))

\* parseCursor of server.js
parseCursor(cursor) ==
  IF ~Truthy(cursor) THEN NullCursor
  ELSE LET doc == TokenDocument(cursor)
       IN  IF ~doc.ok THEN NullCursor
           ELSE IF Falsy(doc.val) \/ doc.val.j # "object" THEN NullCursor
           ELSE IF Member(doc.val, KeyCreatedAt).j # "number"
                   \/ Member(doc.val, KeyId).j # "string" THEN NullCursor
           ELSE [ok |-> TRUE, createdAt |-> Member(doc.val, KeyCreatedAt),
                 id |-> Member(doc.val, KeyId)]

\* parseCursor of _petFeedStore.js
parseCursorPg(cursor) ==
  IF ~Truthy(cursor) THEN NullCursor
  ELSE LET doc == TokenDocument(cursor)
       IN  IF ~doc.ok THEN NullCursor
           ELSE IF Falsy(doc.val) \/ doc.val.j # "object" THEN NullCursor
           ELSE IF Member(doc.val, KeyCreatedAt).j # "string"
                   \/ Member(doc.val, KeyId).j # "string" THEN NullCursor
           ELSE IF DateParseIsNaN(Member(doc.val, KeyCreatedAt).s) THEN NullCursor
           ELSE [ok |-> TRUE, createdAt |-> Member(doc.val, KeyCreatedAt),
                 id |-> Member(doc.val, KeyId)]

----------------------------------------------------------------------------
(* Flat-file listing: app.get('/api/posts') of backend/server.js *)

OLDEST == <<111, 108, 100, 101, 115, 116>>
NEWEST == <<110, 101, 119, 101, 115, 116>>

\* const limit: Number(req.query.limit || 20), clamped when finite
FlatLimit(limit) ==
  LET limitRaw == IF Truthy(limit) THEN ToNumber(limit) ELSE Num(20)
  IN  IF limitRaw.k = "num" THEN Max(1, Min(50, limitRaw.n)) ELSE 20

\* every request listed newest first
FlatSortNewestOnly(sort) == NEWEST

\* const sort: String(req.query.sort || 'newest')
FlatSort(sort) == IF Truthy(sort) THEN sort.v ELSE NEWEST

\* the haystack of the q filter
FlatHaystack(p) ==
  ToLowerCase(p.petName \o <<32>> \o p.petType \o <<32>> \o p.caption)

FlatMatches(p, q) == q = <<>> \/ Includes(FlatHaystack(p), q)

\* a comparator that looks at createdAt only
FlatItemCompareNoTie(a, b, sort) ==
  IF sort = OLDEST THEN a.createdAt - b.createdAt ELSE b.createdAt - a.createdAt

\* the comparator handed to items.sort
FlatItemCompare(a, b, sort) ==
  IF sort = OLDEST
  THEN IF a.createdAt - b.createdAt # 0 THEN a.createdAt - b.createdAt
       ELSE localeCompare(a.id, b.id)
  ELSE IF b.createdAt - a.createdAt # 0 THEN b.createdAt - a.createdAt
       ELSE localeCompare(b.id, a.id)

\* Array.prototype.sort is stable: insertion after the last item that does
\* not compare greater
RECURSIVE SortedInsert(_, _, _)
SortedInsert(sorted, x, sort) ==
  IF sorted = <<>> THEN <<x>>
  ELSE IF FlatItemCompare(sorted[Len(sorted)], x, sort) <= 0 THEN Append(sorted, x)
  ELSE Append(SortedInsert(SubSeq(sorted, 1, Len(sorted) - 1), x, sort), sorted[Len(sorted)])

RECURSIVE JsSort(_, _)
JsSort(items, sort) ==
  IF items = <<>> THEN <<>>
  ELSE SortedInsert(JsSort(SubSeq(items, 1, Len(items) - 1), sort), items[Len(items)], sort)

\* the cursor filter with the cursor's own row kept (<= and >= on the id)
FlatCursorKeepsInclusive(p, cursor, sort) ==
  IF sort = OLDEST
  THEN p.createdAt > cursor.createdAt
       \/ (p.createdAt = cursor.createdAt /\ ~CodeUnitLess(p.id, cursor.id))
  ELSE p.createdAt < cursor.createdAt
       \/ (p.createdAt = cursor.createdAt /\ ~CodeUnitLess(cursor.id, p.id))

\* the cursor filter
FlatCursorKeeps(p, cursor, sort) ==
  IF sort = OLDEST
  THEN p.createdAt > cursor.createdAt
       \/ (p.createdAt = cursor.createdAt /\ CodeUnitLess(cursor.id, p.id))
  ELSE p.createdAt < cursor.createdAt
       \/ (p.createdAt = cursor.createdAt /\ CodeUnitLess(p.id, cursor.id))

\* nextCursor of the flat-file response
FlatNextCursor(slice, limit) ==
  IF Len(slice) = limit
  THEN FlatMakeCursor(slice[Len(slice)].createdAt, slice[Len(slice)].id)
  ELSE NoCursor

\* the whole GET handler: the response body
FlatGetPosts(posts, limitQ, sortQ, qQ, cursorQ) ==
  LET limit == FlatLimit(limitQ)
      sort == FlatSort(sortQ)
      q == ToLowerCase(safeText(qQ, 80))
      cursor == FlatParseCursor(cursorQ)
      matching == SelectSeq(posts, LAMBDA p : FlatMatches(p, q))
      sorted == JsSort(matching, sort)
      after == IF cursor.ok
               THEN SelectSeq(sorted, LAMBDA p : FlatCursorKeeps(p, cursor, sort))
               ELSE sorted
      slice == SubSeq(after, 1, Min(limit, Len(after)))
  IN  [posts |-> [i \in DOMAIN slice |-> slice[i].id],
       nextCursor |-> FlatNextCursor(slice, limit)]

----------------------------------------------------------------------------
(* Postgres listing: listPosts of api/_petFeedStore.js and the GET branch  *)
(* of api/posts.js                                                         *)

PgSafeLimit(limit) ==
  LET n == ToNumber(limit)
      orDefault == IF n.k = "num" /\ n.n # 0 THEN n.n ELSE 20
  IN  Max(1, Min(50, orDefault))

PgSafeSort(sort) == IF sort = StrVal(OLDEST) THEN OLDEST ELSE NEWEST

\* s LIKE p: % matches any run of characters, _ any one character and a
\* backslash takes the next character literally
RECURSIVE LikeMatch(_, _)
LikeMatch(s, p) ==
  IF p = <<>> THEN s = <<>>
  ELSE IF Head(p) = 37
       THEN LikeMatch(s, Tail(p)) \/ (s # <<>> /\ LikeMatch(Tail(s), p))
  ELSE IF Head(p) = 95
       THEN s # <<>> /\ LikeMatch(Tail(s), Tail(p))
  ELSE IF Head(p) = 92 /\ Len(p) >= 2
       THEN s # <<>> /\ Head(s) = p[2] /\ LikeMatch(Tail(s), Tail(Tail(p)))
  ELSE s # <<>> /\ Head(s) = Head(p) /\ LikeMatch(Tail(s), Tail(p))

PgHaystack(r) ==
  ToLowerCase(r.pet_name \o <<32>> \o r.pet_type \o <<32>> \o r.caption)

\* query = '' OR LOWER(...) LIKE '%' + query + '%'
PgMatches(r, query) ==
  query = <<>> \/ LikeMatch(PgHaystack(r), <<37>> \o query \o <<37>>)

\* order of two TEXT values; every collation orders the ids uid() makes
\* (lower-case hexadecimal digits) as their code units do
PgTextLess(a, b) == CodeUnitLess(a, b)

\* the row comparison (created_at, id) < (ts, id)
PgTupleLess(c1, i1, c2, i2) == c1 < c2 \/ (c1 = c2 /\ PgTextLess(i1, i2))

\* parsedCursor?.id || 'zzzzzzzz': an empty id gives way to the default
PgCursorIdNewest(id) == IF id = <<>> THEN <<122, 122, 122, 122, 122, 122, 122, 122>> ELSE id

\* the cursor condition of the WHERE clause
PgCursorKeeps(r, parsedCursor, sort) ==
  \/ ~parsedCursor.ok
  \/ IF sort = OLDEST
     THEN PgTupleLess(IsoToTimestamptz(parsedCursor.createdAt), parsedCursor.id,
                      r.created_at, r.id)
     ELSE PgTupleLess(r.created_at, r.id,
                      IsoToTimestamptz(parsedCursor.createdAt),
                      PgCursorIdNewest(parsedCursor.id))

\* ORDER BY created_at, id (ASC for oldest, DESC for newest)
RECURSIVE PgOrderBy(_, _)
PgOrderBy(rows, sort) ==
  IF rows = {} THEN <<>>
  ELSE LET first == CHOOSE x \in rows : \A y \in rows \ {x} :
                      IF sort = OLDEST
                      THEN PgTupleLess(x.created_at, x.id, y.created_at, y.id)
                      ELSE PgTupleLess(y.created_at, y.id, x.created_at, x.id)
       IN  <<first>> \o PgOrderBy(rows \ {first}, sort)

\* listPosts: the rows of the SELECT
listPosts(rows, limit, sort, q, cursor) ==
  LET safeLimit == PgSafeLimit(limit)
      safeSort == PgSafeSort(sort)
      query == ToLowerCase(safeText(q, 80))
      parsedCursor == PgParseCursor(cursor)
      selected == {r \in rows : PgMatches(r, query) /\ PgCursorKeeps(r, parsedCursor, safeSort)}
      ordered == PgOrderBy(selected, safeSort)
  IN  SubSeq(ordered, 1, Min(safeLimit, Len(ordered)))

\* nextCursor of the Postgres response
PgNextCursor(rows) ==
  IF Len(rows) # 0
  THEN PgMakeCursor(DriverDate(rows[Len(rows)].created_at), rows[Len(rows)].id)
  ELSE NoCursor

\* the GET branch of the handler: the response body
PgGetPosts(rows, limitQ, sortQ, qQ, cursorQ) ==
  LET page == listPosts(rows, limitQ, sortQ, qQ, cursorQ)
  IN  [posts |-> [i \in DOMAIN page |-> page[i].id],
       nextCursor |-> PgNextCursor(page)]

----------------------------------------------------------------------------
(* The listing specification: two deployments, one per backend, that have   *)
(* received the same creates, and one client per deployment that pages     *)
(* through the feed by chaining nextCursor.                                *)

\* The posts the stores are drawn from: id (what uid() returned), the
\* creation instant as milliseconds "ms" plus microseconds "us" within the
\* millisecond, and the sanitised text fields.
Candidates ==
  << [id |-> <<50, 98>>,  ms |-> 200, us |-> 0,
      petName |-> <<65, 98>>, petType |-> <<100>>, caption |-> <<>>],
     [id |-> <<49, 97>>,  ms |-> 100, us |-> 0,
      petName |-> <<98>>, petType |-> <<99>>, caption |-> <<97, 95>>],
     [id |-> <<51, 99>>,  ms |-> 200, us |-> 0,
      petName |-> <<>>, petType |-> <<111>>, caption |-> <<66>>],
     [id |-> <<48, 102>>, ms |-> 200, us |-> 456,
      petName |-> <<97>>, petType |-> <<100>>, caption |-> <<>>],
     [id |-> <<57, 101>>, ms |-> 300, us |-> 7,
      petName |-> <<99>>, petType |-> <<111>>, caption |-> <<98>>],
     [id |-> <<97, 48>>,  ms |-> 100, us |-> 999,
      petName |-> <<>>, petType |-> <<99>>, caption |-> <<>>] >>

\* the record app.post('/api/posts') stores: createdAt is Date.now() and
\* imagePath names the upload after the id
FlatRecord(c) ==
  [id |-> c.id, petName |-> c.petName, petType |-> c.petType,
   caption |-> c.caption, createdAt |-> c.ms, imagePath |-> c.id]

\* the row insertPost stores: created_at is NOW() and image_url is the
\* blob's URL, one per create
PgRow(c) ==
  [id |-> c.id, pet_name |-> c.petName, pet_type |-> c.petType,
   caption |-> c.caption, image_url |-> c.id,
   created_at |-> c.ms * MicrosPerMs + c.us]

RECURSIVE Pick(_, _)
Pick(chosen, i) ==
  IF i > Min(MaxPosts, Len(Candidates)) THEN <<>>
  ELSE (IF i \in chosen THEN <<Candidates[i]>> ELSE <<>>) \o Pick(chosen, i + 1)

LimitValues ==
  { Undefined, StrVal(<<48>>), StrVal(<<49>>), StrVal(<<50>>), StrVal(<<51>>),
    StrVal(<<53, 48>>), StrVal(<<57, 57>>), StrVal(<<45, 49>>), StrVal(<<120>>) }

SortValues == { Undefined, StrVal(NEWEST), StrVal(OLDEST) }

QValues == { Undefined, StrVal(<<97>>), StrVal(<<66, 32>>), StrVal(<<95>>) }

NewTraversal == [cursor |-> NoCursor, pages |-> <<>>, done |-> FALSE]

\* no cursor is being made or parsed
CodecIdle ==
  [store |-> "flat", createdAt |-> JUndefined, id |-> JUndefined, cursor |-> Undefined,
   made |-> FALSE, parsed |-> NullCursor, doc |-> NoCursor, listed |-> <<>>,
   pc |-> "idle"]

\* the state object of pet-photos-app.js when the page has loaded: the
\* public feed is empty and nothing is being fetched.  "fetches" holds the
\* requests sent and not yet settled, "lastOk" whether the last settled
\* request succeeded, and "events" counts the user's actions.
StateIdle ==
  [publicPosts |-> <<>>, publicCursor |-> NoCursor, publicHasMore |-> TRUE,
   publicFilter |-> <<>>, publicSort |-> NEWEST, publicIsLoading |-> FALSE,
   fetches |-> <<>>, lastOk |-> TRUE, events |-> 0]

\* no request is being handled: the state of the server between requests
ApiIdle ==
  /\ state = StateIdle
  /\ backend = "flat"
  /\ adminToken = <<>>
  /\ fileState = "complete"
  /\ writeChain = <<>>
  /\ images = {}
  /\ removals = {}
  /\ reqs = <<>>

ListInit ==
  /\ ApiIdle
  /\ \E chosen \in SUBSET (1..MaxPosts) :
       /\ filePosts = [i \in DOMAIN Pick(chosen, 1) |-> FlatRecord(Pick(chosen, 1)[i])]
       /\ pgRows = {PgRow(Pick(chosen, 1)[i]) : i \in DOMAIN Pick(chosen, 1)}
  /\ reqLimit \in LimitValues
  /\ reqSort \in SortValues
  /\ reqQ \in QValues
  /\ flatTrav = NewTraversal
  /\ pgTrav = NewTraversal
  /\ codec = CodecIdle

\* the client sends the request again with the nextCursor it was given
\* and stops when nextCursor is null
FlatListPage ==
  /\ ~flatTrav.done
  /\ Len(flatTrav.pages) < MaxPages
  /\ LET res == FlatGetPosts(filePosts, reqLimit, reqSort, reqQ, flatTrav.cursor)
     IN  flatTrav' = [flatTrav EXCEPT !.cursor = res.nextCursor,
                                      !.pages = Append(flatTrav.pages, res),
                                      !.done = res.nextCursor = NoCursor]
  /\ UNCHANGED <<filePosts, pgRows, reqLimit, reqSort, reqQ, pgTrav, codec>>
  /\ UNCHANGED apiVars

PgListPage ==
  /\ ~pgTrav.done
  /\ Len(pgTrav.pages) < MaxPages
  /\ LET res == PgGetPosts(pgRows, reqLimit, reqSort, reqQ, pgTrav.cursor)
     IN  pgTrav' = [pgTrav EXCEPT !.cursor = res.nextCursor,
                                  !.pages = Append(pgTrav.pages, res),
                                  !.done = res.nextCursor = NoCursor]
  /\ UNCHANGED <<filePosts, pgRows, reqLimit, reqSort, reqQ, flatTrav, codec>>
  /\ UNCHANGED apiVars

ListNext == FlatListPage \/ PgListPage

SpecList == ListInit /\ [][ListNext]_vars

----------------------------------------------------------------------------
(* The insert specification: the two traversals of the listing             *)
(* specification, with posts created between their page requests.  Each   *)
(* traversal remembers the ids of the posts that existed when it started.  *)

StartedTraversal(ids) == [cursor |-> NoCursor, pages |-> <<>>, done |-> FALSE, start |-> ids]

InsertLimitValues == { StrVal(<<49>>), StrVal(<<50>>) }

InsertInit ==
  /\ ApiIdle
  /\ codec = CodecIdle
  /\ \E chosen \in SUBSET (1..MaxPosts) :
       /\ filePosts = [i \in DOMAIN Pick(chosen, 1) |-> FlatRecord(Pick(chosen, 1)[i])]
       /\ pgRows = {PgRow(Pick(chosen, 1)[i]) : i \in DOMAIN Pick(chosen, 1)}
       /\ flatTrav = StartedTraversal({Pick(chosen, 1)[i].id : i \in DOMAIN Pick(chosen, 1)})
       /\ pgTrav = StartedTraversal({Pick(chosen, 1)[i].id : i \in DOMAIN Pick(chosen, 1)})
  /\ reqLimit \in InsertLimitValues
  /\ reqSort \in SortValues
  /\ reqQ = Undefined

\* a create that ran to its end after both traversals got their first
\* page: store.add pushes the record, insertPost inserts the row
InsertPost ==
  /\ flatTrav.pages # <<>>
  /\ pgTrav.pages # <<>>
  /\ \E i \in 1..Min(MaxPosts, Len(Candidates)) :
       /\ \A j \in DOMAIN filePosts : filePosts[j].id # Candidates[i].id
       /\ filePosts' = Append(filePosts, FlatRecord(Candidates[i]))
       /\ pgRows' = pgRows \cup {PgRow(Candidates[i])}
  /\ UNCHANGED <<reqLimit, reqSort, reqQ, flatTrav, pgTrav, codec>>
  /\ UNCHANGED apiVars

InsertNext == FlatListPage \/ PgListPage \/ InsertPost

SpecInsert == InsertInit /\ [][InsertNext]_vars

----------------------------------------------------------------------------
(* The codec specification: one cursor, either made by makeCursor from a    *)
(* valid (createdAt, id) pair of a backend or handed in by a client, goes  *)
(* through the backend's parseCursor and then through a list request.      *)

\* Date.parse of an instant of 1 January 1970 as toISOString writes it
DateParse(str) ==
  IF ~IsIsoInstant(str) THEN 0
  ELSE DigitsValue(SubSeq(str, 12, 13)) * 3600000 + DigitsValue(SubSeq(str, 15, 16)) * 60000
         + DigitsValue(SubSeq(str, 18, 19)) * 1000 + DigitsValue(SubSeq(str, 21, 23))

\* what the listing handlers see of a cursor parameter: whether its
\* document parses to an object, and the type and value of its members
CursorDocument(cursor) ==
  IF ~Truthy(cursor) THEN NoCursor
  ELSE LET doc == TokenDocument(cursor)
       IN  IF ~doc.ok THEN GarbageCursor
           ELSE IF Falsy(doc.val) \/ doc.val.j # "object" THEN GarbageCursor
           ELSE LET c == Member(doc.val, KeyCreatedAt)
                    i == Member(doc.val, KeyId)
                IN  [t |-> "json",
                     ck |-> IF c.j = "number" THEN "number"
                            ELSE IF c.j # "string" THEN "missing"
                            ELSE IF DateParseIsNaN(c.s) THEN "badstring"
                            ELSE "isostring",
                     cn |-> IF c.j = "number" THEN c.n
                            ELSE IF c.j = "string" THEN DateParse(c.s)
                            ELSE 0,
                     ik |-> IF i.j = "string" THEN "string" ELSE "missing",
                     is |-> IF i.j = "string" THEN i.s ELSE <<>>]

\* createdAt of a flat-file record: Date.now()
CodecNumbers == {0, 7, 200, 0 - 5, 2000000000}

\* created_at of a row as the handler passes it to makeCursor
CodecInstants == {toISOString(ms) : ms \in {0, 200, 1000, 61001, 2147483}}

\* ids, among them ones JSON.stringify has to escape
CodecIds == {<<>>, <<50, 98>>, <<97, 34, 98, 92>>, <<48, 102>>, <<123, 125, 44, 58>>}

ValidCreatedAt(store) ==
  IF store = "flat" THEN {JNum(n) : n \in CodecNumbers} ELSE {JStr(str) : str \in CodecInstants}

\* {"createdAt":"x","id":"a"}
DocBadTimestamp == <<123, 34, 99, 114, 101, 97, 116, 101, 100, 65, 116, 34, 58, 34, 120, 34, 44, 34, 105, 100, 34, 58, 34, 97, 34, 125>>

\* {"createdAt":1,"id":"a"}
DocNumberPair == <<123, 34, 99, 114, 101, 97, 116, 101, 100, 65, 116, 34, 58, 49, 44, 34, 105, 100, 34, 58, 34, 97, 34, 125>>

\* {"createdAt":"1970-01-01T00:00:00.200Z","id":"a"}
DocIsoPair ==
  <<123, 34, 99, 114, 101, 97, 116, 101, 100, 65, 116, 34, 58, 34, 49,
  57, 55, 48, 45, 48, 49, 45, 48, 49, 84, 48, 48, 58, 48, 48, 58, 48, 48,
  46, 50, 48, 48, 90, 34, 44, 34, 105, 100, 34, 58, 34, 97, 34, 125>>

\* texts that are not JSON, not an object, or an object with createdAt or
\* id missing or of another type, or with a timestamp that is no date
MalformedDocuments == {
    \* null
    <<110, 117, 108, 108>>,
    \* 5
    <<53>>,
    \* {}
    <<123, 125>>,
    \* {"createdAt":1}
    <<123, 34, 99, 114, 101, 97, 116, 101, 100, 65, 116, 34, 58, 49, 125>>,
    \* {"id":"a"}
    <<123, 34, 105, 100, 34, 58, 34, 97, 34, 125>>,
    \* {"createdAt":"1970-13-01T00:00:00.000Z","id":"a"}
    <<123, 34, 99, 114, 101, 97, 116, 101, 100, 65, 116, 34, 58, 34, 49,
       57, 55, 48, 45, 49, 51, 45, 48, 49, 84, 48, 48, 58, 48, 48, 58, 48, 48,
       46, 48, 48, 48, 90, 34, 44, 34, 105, 100, 34, 58, 34, 97, 34, 125>>,
    \* {"createdAt":1,"id":2}
    <<123, 34, 99, 114, 101, 97, 116, 101, 100, 65, 116, 34, 58, 49, 44,
       34, 105, 100, 34, 58, 50, 125>>,
    \* {"createdAt":null,"id":"a"}
    <<123, 34, 99, 114, 101, 97, 116, 101, 100, 65, 116, 34, 58, 110, 117,
       108, 108, 44, 34, 105, 100, 34, 58, 34, 97, 34, 125>>,
    \* {"createdAt":1,"id":"a"
    <<123, 34, 99, 114, 101, 97, 116, 101, 100, 65, 116, 34, 58, 49, 44,
       34, 105, 100, 34, 58, 34, 97, 34>>,
    \* {"createdAt":"1970-01-01T00:00:00.200Z"}
    <<123, 34, 99, 114, 101, 97, 116, 101, 100, 65, 116, 34, 58, 34, 49,
       57, 55, 48, 45, 48, 49, 45, 48, 49, 84, 48, 48, 58, 48, 48, 58, 48, 48,
       46, 50, 48, 48, 90, 34, 125>>,
    DocBadTimestamp }

\* tokens no makeCursor of the backend wrote: texts that are not base64url
\* JSON ("!!", "abc"), the token of {} ("e30"), the tokens of the malformed
\* documents, and the token of the other backend's pair
MalformedTokens(store) ==
  { <<33, 33>>, <<97, 98, 99>>, <<101, 51, 48>> }
    \cup { Base64UrlEncode(doc) : doc \in MalformedDocuments }
    \cup { Base64UrlEncode(IF store = "flat" THEN DocIsoPair ELSE DocNumberPair) }

\* the stores hold the first MaxPosts candidate posts
CodecInit ==
  /\ ApiIdle
  /\ filePosts = [i \in 1..Min(MaxPosts, Len(Candidates)) |-> FlatRecord(Candidates[i])]
  /\ pgRows = {PgRow(Candidates[i]) : i \in 1..Min(MaxPosts, Len(Candidates))}
  /\ reqLimit = StrVal(<<50>>)
  /\ reqSort \in SortValues
  /\ reqQ = Undefined
  /\ flatTrav = NewTraversal
  /\ pgTrav = NewTraversal
  /\ \E store \in {"flat", "pg"} :
       \/ \E createdAt \in ValidCreatedAt(store), id \in CodecIds :
            codec = [CodecIdle EXCEPT !.store = store, !.createdAt = createdAt,
                                      !.id = JStr(id), !.pc = "make"]
       \/ \E token \in MalformedTokens(store) :
            codec = [CodecIdle EXCEPT !.store = store, !.cursor = StrVal(token),
                                      !.pc = "parse"]

codecUnchanged ==
  /\ UNCHANGED <<filePosts, pgRows, reqLimit, reqSort, reqQ, flatTrav, pgTrav>>
  /\ UNCHANGED apiVars

\* nextCursor: makeCursor({ createdAt, id })
CursorMake ==
  /\ codec.pc = "make"
  /\ codec' = [codec EXCEPT !.cursor = StrVal(makeCursor(codec.createdAt, codec.id)),
                            !.made = TRUE, !.pc = "parse"]
  /\ codecUnchanged

\* parseCursor(req.query.cursor) of the backend; doc is what the handler
\* has read of the token
CursorParse ==
  /\ codec.pc = "parse"
  /\ codec' = [codec EXCEPT !.parsed = IF codec.store = "flat" THEN parseCursor(codec.cursor)
                                       ELSE parseCursorPg(codec.cursor),
                            !.doc = CursorDocument(codec.cursor),
                            !.pc = "list"]
  /\ codecUnchanged

\* the body GET /api/posts answers to the request whose cursor reads as doc
ListResponse(store, doc) ==
  IF store = "flat"
  THEN FlatGetPosts(filePosts, reqLimit, reqSort, reqQ, doc)
  ELSE PgGetPosts(pgRows, reqLimit, reqSort, reqQ, doc)

CursorList ==
  /\ codec.pc = "list"
  /\ codec' = [codec EXCEPT !.listed = ListResponse(codec.store, codec.doc),
                            !.pc = "done"]
  /\ codecUnchanged

CodecNext == CursorMake \/ CursorParse \/ CursorList

SpecCodec == CodecInit /\ [][CodecNext]_vars

----------------------------------------------------------------------------
(* Properties of the listing specification *)

\* the request asks for a limit in 1..50 and names a sort order
ValidLimit == ToNumber(reqLimit).k = "num" /\ ToNumber(reqLimit).n \in 1..50
ValidSort == reqSort \in {StrVal(NEWEST), StrVal(OLDEST)}
RequestedLimit == ToNumber(reqLimit).n

\* the search term as the contract reads it: trimmed, compared without case
SearchTerm == IF reqQ.t = "string" THEN ToLowerCase(Trim(reqQ.v)) ELSE <<>>

\* a post matches when its name, type and caption, joined by spaces and
\* lower-cased, contain the term
TextMatches(petName, petType, caption) ==
  \/ SearchTerm = <<>>
  \/ Includes(ToLowerCase(petName \o <<32>> \o petType \o <<32>> \o caption), SearchTerm)

\* sort keys (at, id) of the matching records of each store
FlatMatchingKeys ==
  { [at |-> filePosts[i].createdAt, id |-> filePosts[i].id] :
      i \in { j \in DOMAIN filePosts :
                TextMatches(filePosts[j].petName, filePosts[j].petType, filePosts[j].caption) } }

\* for the Postgres store, the rows the WHERE clause's text filter selects
PgMatchingKeys ==
  { [at |-> r.created_at, id |-> r.id] :
      r \in { x \in pgRows : PgMatches(x, ToLowerCase(safeText(reqQ, 80))) } }

KeyLess(a, b) == a.at < b.at \/ (a.at = b.at /\ CodeUnitLess(a.id, b.id))

\* the ids of a set of keys in the requested order of (createdAt, id)
RECURSIVE InOrder(_)
InOrder(keys) ==
  IF keys = {} THEN <<>>
  ELSE LET first == CHOOSE k \in keys : \A o \in keys \ {k} :
                      IF reqSort = StrVal(OLDEST) THEN KeyLess(k, o) ELSE KeyLess(o, k)
       IN  <<first.id>> \o InOrder(keys \ {first})

RECURSIVE Concat(_)
Concat(pages) ==
  IF pages = <<>> THEN <<>> ELSE Head(pages).posts \o Concat(Tail(pages))

IsPrefix(a, b) == Len(a) <= Len(b) /\ a = SubSeq(b, 1, Len(a))

\* C1: paging through the flat-file feed from no cursor until nextCursor is
\* null returns every matching post exactly once, in the requested order,
\* for any limit in 1..50: what has been returned so far is always a prefix
\* of the ordered matching posts, the traversal ends within one request per
\* post plus one, and when it ends it has returned them all.
FlatPaginationExactlyOnce ==
  (ValidLimit /\ ValidSort) =>
    /\ IsPrefix(Concat(flatTrav.pages), InOrder(FlatMatchingKeys))
    /\ Len(flatTrav.pages) <= Len(filePosts) + 1
    /\ flatTrav.done => Concat(flatTrav.pages) = InOrder(FlatMatchingKeys)

\* a traversal of three pages over a feed with two posts of one createdAt
FlatPaginationWitness ==
  /\ ValidLimit /\ ValidSort
  /\ flatTrav.done
  /\ Len(flatTrav.pages) >= 3
  /\ \E i, j \in DOMAIN filePosts : i # j /\ filePosts[i].createdAt = filePosts[j].createdAt
  /\ Len(Concat(flatTrav.pages)) = Len(filePosts)

\* C2: the same traversal of the Postgres feed ends and returns every
\* matching row exactly once, in the requested order.
PgPaginationExactlyOnce ==
  (ValidLimit /\ ValidSort) =>
    /\ IsPrefix(Concat(pgTrav.pages), InOrder(PgMatchingKeys))
    /\ Len(pgTrav.pages) <= Cardinality(pgRows) + 1
    /\ pgTrav.done => Concat(pgTrav.pages) = InOrder(PgMatchingKeys)

\* C3: in both feed APIs a page with fewer rows than the limit carries no
\* nextCursor, and a nextCursor names the last row of its page.
ShortPageHasNoCursor(trav) ==
  \A i \in DOMAIN trav.pages :
    LET page == trav.pages[i]
    IN  /\ Len(page.posts) < RequestedLimit => page.nextCursor = NoCursor
        /\ page.nextCursor # NoCursor =>
             Len(page.posts) > 0 /\ page.nextCursor.is = page.posts[Len(page.posts)]

NextCursorFromLastRow ==
  ValidLimit => ShortPageHasNoCursor(flatTrav) /\ ShortPageHasNoCursor(pgTrav)

\* both stores hold the same records: every creation instant is a whole
\* millisecond
SameRecords == \A r \in pgRows : r.created_at % MicrosPerMs = 0

\* C4: for the same records and the same raw limit, sort and q, the two
\* backends return the same sequence of post ids.
BackendsListAlike ==
  (SameRecords /\ Len(flatTrav.pages) >= 1 /\ Len(pgTrav.pages) >= 1) =>
    flatTrav.pages[1].posts = pgTrav.pages[1].posts

\* the limit of the contract: the requested number clamped to 1..50, and
\* 20 when the parameter is absent or not a number
EffectiveLimit ==
  IF ToNumber(reqLimit).k = "num" THEN Max(1, Min(50, ToNumber(reqLimit).n)) ELSE 20

\* C16: a list request is served with the requested limit clamped to
\* 1..50, or with 20 when the limit is absent or not a number, and no page
\* has more rows than that.
LimitClamped ==
  /\ flatTrav.pages # <<>> =>
       /\ FlatLimit(reqLimit) = EffectiveLimit
       /\ \A i \in DOMAIN flatTrav.pages : Len(flatTrav.pages[i].posts) <= EffectiveLimit
  /\ pgTrav.pages # <<>> =>
       /\ PgSafeLimit(reqLimit) = EffectiveLimit
       /\ \A i \in DOMAIN pgTrav.pages : Len(pgTrav.pages[i].posts) <= EffectiveLimit

\* sort keys (at, id) of all records of each store
FlatKeys == { [at |-> filePosts[i].createdAt, id |-> filePosts[i].id] : i \in DOMAIN filePosts }
PgKeys == { [at |-> r.created_at, id |-> r.id] : r \in pgRows }

KeyOf(keys, id) == CHOOSE k \in keys : k.id = id

\* the page is strictly ascending (oldest) or strictly descending (any
\* other sort, which lists newest first) in (createdAt, id)
PageOrdered(page, keys) ==
  \A i \in 1..(Len(page.posts) - 1) :
    IF reqSort = StrVal(OLDEST)
    THEN KeyLess(KeyOf(keys, page.posts[i]), KeyOf(keys, page.posts[i + 1]))
    ELSE KeyLess(KeyOf(keys, page.posts[i + 1]), KeyOf(keys, page.posts[i]))

Reverse(s) == [i \in DOMAIN s |-> s[Len(s) + 1 - i]]

\* the first page of the same request with the other sort order
FlatOtherFirstPage ==
  FlatGetPosts(filePosts, reqLimit,
               IF reqSort = StrVal(OLDEST) THEN StrVal(NEWEST) ELSE StrVal(OLDEST),
               reqQ, NoCursor).posts
PgOtherFirstPage ==
  PgGetPosts(pgRows, reqLimit,
             IF reqSort = StrVal(OLDEST) THEN StrVal(NEWEST) ELSE StrVal(OLDEST),
             reqQ, NoCursor).posts

\* C18 as stated: for any record set, the same search term and no cursor,
\* the list for sort=newest reversed is the list for sort=oldest.
NewestReversedIsOldest ==
  ValidSort =>
    /\ flatTrav.pages # <<>> => Reverse(flatTrav.pages[1].posts) = FlatOtherFirstPage
    /\ pgTrav.pages # <<>> => Reverse(pgTrav.pages[1].posts) = PgOtherFirstPage

\* C18, amended: when the matching records are no more than the limit the
\* request is served with, the list for sort=newest reversed is the list
\* for sort=oldest, also when records share a createdAt.
NewestReversedIsOldestWithinLimit ==
  ValidSort =>
    /\ (flatTrav.pages # <<>> /\ Cardinality(FlatMatchingKeys) <= FlatLimit(reqLimit)) =>
         Reverse(flatTrav.pages[1].posts) = FlatOtherFirstPage
    /\ (pgTrav.pages # <<>> /\ Cardinality(PgMatchingKeys) <= PgSafeLimit(reqLimit)) =>
         Reverse(pgTrav.pages[1].posts) = PgOtherFirstPage

\* both backends listed three posts that fit the limit, two of them of one
\* createdAt
NewestReversedWitness ==
  /\ ValidSort
  /\ flatTrav.pages # <<>> /\ Len(flatTrav.pages[1].posts) = 3
  /\ pgTrav.pages # <<>> /\ Len(pgTrav.pages[1].posts) = 3
  /\ Cardinality(FlatMatchingKeys) <= FlatLimit(reqLimit)
  /\ Cardinality(PgMatchingKeys) <= PgSafeLimit(reqLimit)
  /\ \E a, b \in PgMatchingKeys : a # b /\ a.at = b.at
  /\ \E a, b \in FlatMatchingKeys : a # b /\ a.at = b.at

----------------------------------------------------------------------------
(* Request handling: the create, delete and list handlers of both          *)
(* deployments over their stores.  A handler runs up to its next await in  *)
(* one step; steps of different requests interleave.                       *)

\* Authorization header values: absent, or "<scheme> <cred>"
NoAuth == [scheme |-> "none", cred |-> <<>>]
Bearer(cred) == [scheme |-> "Bearer", cred |-> cred]

TOKEN == <<116, 111, 107>>
WRONG == <<120>>

AuthValues == { NoAuth, Bearer(TOKEN), Bearer(WRONG), Bearer(<<32>> \o TOKEN) }

\* values of process.env.ADMIN_TOKEN: unset, blank, set
EnvTokenValues == { <<>>, <<32>>, TOKEN }

\* const ADMIN_TOKEN = (process.env.ADMIN_TOKEN || '').trim()
AdminTokenOf(env) == Trim(env)

\* server.js: auth.startsWith('Bearer ') ? auth.slice('Bearer '.length) : ''
FlatBearerToken(auth) == IF auth.scheme = "Bearer" THEN auth.cred ELSE <<>>

\* contact.js getBearerToken: the same, trimmed
getBearerToken(auth) == IF auth.scheme # "Bearer" THEN <<>> ELSE Trim(auth.cred)

\* the checks without the one for an empty ADMIN_TOKEN: an absent header
\* then yields the token '' and '' equals the empty ADMIN_TOKEN
FlatDeleteGuardNoDisable(auth, idRaw) ==
  IF FlatBearerToken(auth) # adminToken THEN 401
  ELSE IF Trim(idRaw) = <<>> THEN 400
  ELSE 0

\* the checks with the id looked at before the token
FlatDeleteGuardIdFirst(auth, idRaw) ==
  IF adminToken = <<>> THEN 403
  ELSE IF Trim(idRaw) = <<>> THEN 400
  ELSE IF FlatBearerToken(auth) # adminToken THEN 401
  ELSE 0

\* the checks app.delete makes before it touches the store: the status it
\* answers, or 0 to go on
FlatDeleteGuard(auth, idRaw) ==
  IF adminToken = <<>> THEN 403
  ELSE IF FlatBearerToken(auth) # adminToken THEN 401
  ELSE IF Trim(idRaw) = <<>> THEN 400
  ELSE 0

\* the same checks in the serverless DELETE handler
PgDeleteGuard(auth, idRaw) ==
  IF adminToken = <<>> THEN 403
  ELSE IF getBearerToken(auth) # adminToken THEN 401
  ELSE IF Trim(idRaw) = <<>> THEN 400
  ELSE 0

(* uploads: what POST /api/posts receives in its multipart body *)

\* MAX_UPLOAD_BYTES: 6 * 1024 * 1024 unless the environment sets it
MAX_UPLOAD_BYTES == 6291456

\* the photo part of the body: absent, or a file with the MIME type it
\* declares and its size in bytes
NoPhoto == [present |-> FALSE, mime |-> "", size |-> 0]
Photo(mime, size) == [present |-> TRUE, mime |-> mime, size |-> size]

GoodUpload == Photo("image/jpeg", 1)

UploadValues ==
  { NoPhoto } \cup
  { Photo(m, n) : m \in {"image/jpeg", "text/plain"},
                  n \in {0, 1, MAX_UPLOAD_BYTES + 1} }

\* mimeToExt / extForMime: "" for a type that is not accepted
mimeToExt(mime) ==
  CASE mime = "image/jpeg" -> "jpg"
    [] mime = "image/png" -> "png"
    [] mime = "image/webp" -> "webp"
    [] mime = "image/gif" -> "gif"
    [] mime = "image/avif" -> "avif"
    [] OTHER -> ""

\* upload.single('photo') with limits.fileSize: a file larger than the
\* limit makes multer pass an error with code LIMIT_FILE_SIZE on; a body
\* without the part leaves req.file undefined
NoError == [code |-> "", message |-> ""]

MulterUpload(upload) ==
  IF upload.present /\ upload.size > MAX_UPLOAD_BYTES
  THEN [err |-> [code |-> "LIMIT_FILE_SIZE", message |-> "File too large"], file |-> NoPhoto]
  ELSE [err |-> NoError, file |-> upload]

\* the error-handling middleware of server.js
FlatErrorStatus(err) == IF err.code = "LIMIT_FILE_SIZE" THEN 413 ELSE 500

\* what app.post answers before it stores anything, 0 to go on
FlatCreateGuard(upload) ==
  LET parsed == MulterUpload(upload)
  IN  IF parsed.err # NoError THEN FlatErrorStatus(parsed.err)
      ELSE IF ~parsed.file.present THEN 400
      ELSE IF mimeToExt(parsed.file.mime) = "" THEN 415
      ELSE 0

\* parseMultipart: formidable with maxFileSize and allowEmptyFiles: false
\* rejects with an error whose code is a number and whose message names
\* the option that was broken
parseMultipart(upload) ==
  IF upload.present /\ upload.size > MAX_UPLOAD_BYTES
  THEN [err |-> [code |-> "1009", message |-> "options.maxFileSize exceeded"], file |-> NoPhoto]
  ELSE IF upload.present /\ upload.size = 0
  THEN [err |-> [code |-> "1010", message |-> "options.allowEmptyFiles is false"], file |-> NoPhoto]
  ELSE [err |-> NoError, file |-> upload]

\* the catch of the api/posts.js handler
PgErrorStatus(err) ==
  IF err.code = "LIMIT_FILE_SIZE" THEN 413
  ELSE IF err.message = "options.maxFileSize exceeded" THEN 413
  ELSE 500

\* what the POST branch answers before put(), 0 to go on
PgCreateGuard(upload) ==
  LET parsed == parseMultipart(upload)
  IN  IF parsed.err # NoError THEN PgErrorStatus(parsed.err)
      ELSE IF ~parsed.file.present THEN 400
      ELSE IF mimeToExt(parsed.file.mime) = "" THEN 415
      ELSE 0

\* the post that was in the store before the run, and the post request r creates
Existing == Candidates[MaxReqs + 1]
Created(r) == Candidates[r]

\* ids a DELETE names: blank, or the existing post's id with a leading space
\* (a second DELETE of that id finds no record)
DeleteIdValues == { <<32>>, <<32>> \o Existing.id }

NewReq(kind, pc) ==
  [kind |-> kind, pc |-> pc, auth |-> NoAuth, idRaw |-> <<>>, upload |-> NoPhoto, cand |-> 0,
   saw |-> "none", snap |-> {}, link |-> 0, removed |-> <<>>, status |-> 0]

Ids(posts) == {posts[i].id : i \in DOMAIN posts}

ApiInit ==
  /\ backend \in {"flat", "pg"}
  /\ \E env \in EnvTokenValues : adminToken = AdminTokenOf(env)
  /\ fileState = "complete"
  /\ filePosts = IF backend = "flat" THEN <<FlatRecord(Existing)>> ELSE <<>>
  /\ pgRows = IF backend = "pg" THEN {PgRow(Existing)} ELSE {}
  /\ images = {Existing.id}
  /\ writeChain = <<>>
  /\ removals = {}
  /\ reqs = <<>>
  /\ reqLimit = Undefined
  /\ reqSort = Undefined
  /\ reqQ = Undefined
  /\ flatTrav = NewTraversal
  /\ pgTrav = NewTraversal
  /\ codec = CodecIdle
  /\ state = StateIdle

listUnchanged == UNCHANGED <<reqLimit, reqSort, reqQ, flatTrav, pgTrav, codec, state>>

(* createStore of backend/server.js *)

\* readAll: an empty file parses as {} and has no posts; a partly written
\* file is not JSON and JSON.parse throws
readAll ==
  IF fileState = "partial" THEN [threw |-> TRUE, posts |-> <<>>]
  ELSE [threw |-> FALSE, posts |-> filePosts]

\* writeAll: one more link on the chain
writeAll(posts) == Append(writeChain, [posts |-> posts, status |-> "queued"])

\* a write that does not wait for the chain
CanStartWriteUnchained(k) == writeChain[k].status = "queued"

\* a link's callback runs once the promise before it is fulfilled
CanStartWrite(k) ==
  /\ writeChain[k].status = "queued"
  /\ IF k = 1 THEN TRUE ELSE writeChain[k - 1].status = "done"

SetLink(k, st) == [writeChain EXCEPT ![k].status = st]

\* fsp.writeFile opens POSTS_FILE with flag 'w', which empties it
StartWrite(k) ==
  /\ CanStartWrite(k)
  /\ writeChain' = SetLink(k, "writing")
  /\ fileState' = "truncated"
  /\ filePosts' = <<>>
  /\ UNCHANGED <<pgRows, backend, adminToken, images, removals, reqs>>
  /\ listUnchanged

\* part of the document is on disk
WriteChunk(k) ==
  /\ writeChain[k].status = "writing"
  /\ fileState = "truncated"
  /\ fileState' = "partial"
  /\ UNCHANGED <<filePosts, pgRows, backend, adminToken, writeChain, images, removals, reqs>>
  /\ listUnchanged

\* the whole document is on disk and the link's promise is fulfilled
FinishWrite(k) ==
  /\ writeChain[k].status = "writing"
  /\ writeChain' = SetLink(k, "done")
  /\ fileState' = "complete"
  /\ filePosts' = writeChain[k].posts
  /\ UNCHANGED <<pgRows, backend, adminToken, images, removals, reqs>>
  /\ listUnchanged

\* the write fails (disk full, I/O error): the link's promise is rejected;
\* every later link is then rejected without a write, so one run has at most
\* one failed write
FailWrite(k) ==
  /\ writeChain[k].status = "writing"
  /\ writeChain' = SetLink(k, "failed")
  /\ UNCHANGED <<filePosts, pgRows, backend, adminToken, fileState, images, removals, reqs>>
  /\ listUnchanged

\* then() on a rejected promise does not run the callback: the link is
\* rejected without a write
SkipWrite(k) ==
  /\ writeChain[k].status = "queued"
  /\ k > 1
  /\ writeChain[k - 1].status \in {"failed", "rejected"}
  /\ writeChain' = SetLink(k, "rejected")
  /\ UNCHANGED <<filePosts, pgRows, backend, adminToken, fileState, images, removals, reqs>>
  /\ listUnchanged

(* app.post('/api/posts') of backend/server.js *)

\* the handler up to the end of the image write; the rate limiter in front
\* of it admits 20 creates an hour, more than one run holds
FlatCreate(upload) ==
  /\ backend = "flat"
  /\ Len(reqs) < MaxReqs
  /\ LET r == Len(reqs) + 1
         req == [NewReq("create", "add") EXCEPT !.cand = r, !.upload = upload]
     IN  IF FlatCreateGuard(upload) # 0
         THEN /\ reqs' = Append(reqs, [req EXCEPT !.pc = "done",
                                                  !.status = FlatCreateGuard(upload)])
              /\ UNCHANGED images
         ELSE /\ images' = images \cup {Created(r).id}
              /\ reqs' = Append(reqs, req)
  /\ UNCHANGED <<filePosts, pgRows, backend, adminToken, fileState, writeChain, removals>>
  /\ listUnchanged

\* a create whose upload passes the checks
FlatCreateStart == FlatCreate(GoodUpload)

\* store.add: readAll, push, writeAll
FlatStoreAdd(r) ==
  /\ reqs[r].kind = "create" /\ reqs[r].pc = "add"
  /\ backend = "flat"
  /\ IF readAll.threw
     THEN /\ reqs' = [reqs EXCEPT ![r].pc = "failed", ![r].saw = fileState]
          /\ UNCHANGED writeChain
     ELSE /\ writeChain' = writeAll(Append(readAll.posts, FlatRecord(Created(reqs[r].cand))))
          /\ reqs' = [reqs EXCEPT ![r].pc = "await", ![r].saw = fileState,
                                  ![r].snap = Ids(readAll.posts),
                                  ![r].link = Len(writeChain) + 1]
  /\ UNCHANGED <<filePosts, pgRows, backend, adminToken, fileState, images, removals>>
  /\ listUnchanged

\* the write is done: 201 with the created post
FlatCreateRespond(r) ==
  /\ reqs[r].kind = "create" /\ reqs[r].pc = "await"
  /\ writeChain[reqs[r].link].status = "done"
  /\ reqs' = [reqs EXCEPT ![r].pc = "done", ![r].status = 201]
  /\ UNCHANGED <<filePosts, pgRows, backend, adminToken, fileState, writeChain, images, removals>>
  /\ listUnchanged

\* the awaited write was rejected: the handler throws
FlatAwaitRejected(r) ==
  /\ reqs[r].pc = "await"
  /\ writeChain[reqs[r].link].status \in {"failed", "rejected"}
  /\ reqs' = [reqs EXCEPT ![r].pc = "failed"]
  /\ UNCHANGED <<filePosts, pgRows, backend, adminToken, fileState, writeChain, images, removals>>
  /\ listUnchanged

(* app.delete('/api/posts/:id') of backend/server.js *)

\* findIndex without the test for -1: splice(-1, 1) takes the last post
FindIndexUnchecked(posts, id) ==
  IF \E i \in DOMAIN posts : posts[i].id = id
  THEN CHOOSE i \in DOMAIN posts : posts[i].id = id /\ \A j \in 1..(i - 1) : posts[j].id # id
  ELSE Len(posts)

\* posts.findIndex((p) => p.id === id), 0 when there is none
FindIndex(posts, id) ==
  IF \E i \in DOMAIN posts : posts[i].id = id
  THEN CHOOSE i \in DOMAIN posts : posts[i].id = id /\ \A j \in 1..(i - 1) : posts[j].id # id
  ELSE 0

\* posts.splice(idx, 1)
Splice(posts, idx) == SubSeq(posts, 1, idx - 1) \o SubSeq(posts, idx + 1, Len(posts))

\* the checks, then store.remove up to its writeAll
FlatDeleteStart(auth, idRaw) ==
  /\ backend = "flat"
  /\ Len(reqs) < MaxReqs
  /\ LET req == [NewReq("delete", "start") EXCEPT !.auth = auth, !.idRaw = idRaw]
         id == Trim(idRaw)
         idx == FindIndex(readAll.posts, id)
     IN  IF FlatDeleteGuard(auth, idRaw) # 0
         THEN /\ reqs' = Append(reqs, [req EXCEPT !.pc = "done",
                                                  !.status = FlatDeleteGuard(auth, idRaw)])
              /\ UNCHANGED writeChain
         ELSE IF readAll.threw
         THEN /\ reqs' = Append(reqs, [req EXCEPT !.pc = "failed", !.saw = fileState])
              /\ UNCHANGED writeChain
         ELSE IF idx = 0
         THEN /\ reqs' = Append(reqs, [req EXCEPT !.pc = "done", !.status = 404,
                                                  !.saw = fileState,
                                                  !.snap = Ids(readAll.posts)])
              /\ UNCHANGED writeChain
         ELSE /\ writeChain' = writeAll(Splice(readAll.posts, idx))
              /\ reqs' = Append(reqs, [req EXCEPT !.pc = "await", !.saw = fileState,
                                                  !.snap = Ids(readAll.posts),
                                                  !.removed = readAll.posts[idx].imagePath,
                                                  !.link = Len(writeChain) + 1])
  /\ UNCHANGED <<filePosts, pgRows, backend, adminToken, fileState, images, removals>>
  /\ listUnchanged

\* the write is done: the unlink is issued and not awaited, 200 {ok: true}
FlatDeleteRespond(r) ==
  /\ reqs[r].kind = "delete" /\ reqs[r].pc = "await"
  /\ writeChain[reqs[r].link].status = "done"
  /\ removals' = IF reqs[r].removed # <<>> THEN removals \cup {reqs[r].removed} ELSE removals
  /\ reqs' = [reqs EXCEPT ![r].pc = "done", ![r].status = 200]
  /\ UNCHANGED <<filePosts, pgRows, backend, adminToken, fileState, writeChain, images>>
  /\ listUnchanged

\* a removal whose rejection is not caught: the failure reaches the request
\* that issued it
SettleRemovalUncaught(img) ==
  /\ img \in removals
  /\ removals' = removals \ {img}
  /\ \/ images' = images \ {img} /\ UNCHANGED reqs
     \/ /\ UNCHANGED images
        /\ reqs' = [r \in DOMAIN reqs |->
                      IF reqs[r].removed = img THEN [reqs[r] EXCEPT !.status = 500]
                      ELSE reqs[r]]
  /\ UNCHANGED <<filePosts, pgRows, backend, adminToken, fileState, writeChain>>
  /\ UNCHANGED <<reqLimit, reqSort, reqQ, flatTrav, pgTrav, codec, state>>

\* fsp.unlink / del settles: the image is gone, or the removal failed and
\* the catch swallowed it
SettleRemoval(img) ==
  /\ img \in removals
  /\ removals' = removals \ {img}
  /\ \/ images' = images \ {img}
     \/ UNCHANGED images
  /\ UNCHANGED <<filePosts, pgRows, backend, adminToken, fileState, writeChain, reqs>>
  /\ listUnchanged

(* app.get('/api/posts') of backend/server.js: its read of the store *)
FlatList ==
  /\ backend = "flat"
  /\ Len(reqs) < MaxReqs
  /\ reqs' = Append(reqs,
       IF readAll.threw
       THEN [NewReq("list", "failed") EXCEPT !.saw = fileState]
       ELSE [NewReq("list", "done") EXCEPT !.saw = fileState,
                                           !.snap = Ids(readAll.posts), !.status = 200])
  /\ UNCHANGED <<filePosts, pgRows, backend, adminToken, fileState, writeChain, images, removals>>
  /\ listUnchanged

(* the serverless handlers: api/posts.js and the DELETE handler *)

\* POST up to the end of put(): the blob is stored
PgCreate(upload) ==
  /\ backend = "pg"
  /\ Len(reqs) < MaxReqs
  /\ LET r == Len(reqs) + 1
         req == [NewReq("create", "insert") EXCEPT !.cand = r, !.upload = upload]
     IN  IF PgCreateGuard(upload) # 0
         THEN /\ reqs' = Append(reqs, [req EXCEPT !.pc = "done",
                                                  !.status = PgCreateGuard(upload)])
              /\ UNCHANGED images
         ELSE /\ images' = images \cup {Created(r).id}
              /\ reqs' = Append(reqs, req)
  /\ UNCHANGED <<filePosts, pgRows, backend, adminToken, fileState, writeChain, removals>>
  /\ listUnchanged

\* a create whose upload passes the checks
PgCreateStart == PgCreate(GoodUpload)

\* insertPost, then 201 with the created post
PgInsert(r) ==
  /\ reqs[r].kind = "create" /\ reqs[r].pc = "insert"
  /\ pgRows' = pgRows \cup {PgRow(Created(reqs[r].cand))}
  /\ reqs' = [reqs EXCEPT ![r].pc = "done", ![r].status = 201,
                          ![r].snap = {x.id : x \in pgRows}]
  /\ UNCHANGED <<filePosts, backend, adminToken, fileState, writeChain, images, removals>>
  /\ listUnchanged

\* DELETE: the checks, deletePostById, del() issued and not awaited
PgDelete(auth, idRaw) ==
  /\ backend = "pg"
  /\ Len(reqs) < MaxReqs
  /\ LET req == [NewReq("delete", "start") EXCEPT !.auth = auth, !.idRaw = idRaw]
         id == Trim(idRaw)
         hit == {x \in pgRows : x.id = id}
     IN  IF PgDeleteGuard(auth, idRaw) # 0
         THEN /\ reqs' = Append(reqs, [req EXCEPT !.pc = "done",
                                                  !.status = PgDeleteGuard(auth, idRaw)])
              /\ UNCHANGED <<pgRows, removals>>
         ELSE IF hit = {}
         THEN /\ reqs' = Append(reqs, [req EXCEPT !.pc = "done", !.status = 404,
                                                  !.snap = {x.id : x \in pgRows}])
              /\ UNCHANGED <<pgRows, removals>>
         ELSE /\ pgRows' = pgRows \ hit
              /\ removals' = removals \cup {x.image_url : x \in {y \in hit : y.image_url # <<>>}}
              /\ reqs' = Append(reqs, [req EXCEPT !.pc = "done", !.status = 200,
                                                  !.snap = {x.id : x \in pgRows},
                                                  !.removed = (CHOOSE x \in hit : TRUE).image_url])
  /\ UNCHANGED <<filePosts, backend, adminToken, fileState, writeChain, images>>
  /\ listUnchanged

\* GET: the rows the SELECT reads
PgList ==
  /\ backend = "pg"
  /\ Len(reqs) < MaxReqs
  /\ reqs' = Append(reqs, [NewReq("list", "done") EXCEPT !.snap = {x.id : x \in pgRows},
                                                         !.status = 200])
  /\ UNCHANGED <<filePosts, pgRows, backend, adminToken, fileState, writeChain, images, removals>>
  /\ listUnchanged

ApiNext ==
  \/ FlatCreateStart
  \/ \E r \in DOMAIN reqs : FlatStoreAdd(r)
  \/ \E r \in DOMAIN reqs : FlatCreateRespond(r)
  \/ \E r \in DOMAIN reqs : FlatAwaitRejected(r)
  \/ \E auth \in AuthValues, idRaw \in DeleteIdValues : FlatDeleteStart(auth, idRaw)
  \/ \E r \in DOMAIN reqs : FlatDeleteRespond(r)
  \/ FlatList
  \/ \E k \in DOMAIN writeChain : StartWrite(k)
  \/ \E k \in DOMAIN writeChain : WriteChunk(k)
  \/ \E k \in DOMAIN writeChain : FinishWrite(k)
  \/ \E k \in DOMAIN writeChain : FailWrite(k)
  \/ \E k \in DOMAIN writeChain : SkipWrite(k)
  \/ \E img \in removals : SettleRemoval(img)
  \/ PgCreateStart
  \/ \E r \in DOMAIN reqs : PgInsert(r)
  \/ \E auth \in AuthValues, idRaw \in DeleteIdValues : PgDelete(auth, idRaw)
  \/ PgList

SpecApi == ApiInit /\ [][ApiNext]_vars

\* the create endpoint alone, with every kind of upload
CreateNext ==
  \/ \E upload \in UploadValues : FlatCreate(upload)
  \/ \E r \in DOMAIN reqs : FlatStoreAdd(r)
  \/ \E r \in DOMAIN reqs : FlatCreateRespond(r)
  \/ \E r \in DOMAIN reqs : FlatAwaitRejected(r)
  \/ \E k \in DOMAIN writeChain : StartWrite(k)
  \/ \E k \in DOMAIN writeChain : WriteChunk(k)
  \/ \E k \in DOMAIN writeChain : FinishWrite(k)
  \/ \E k \in DOMAIN writeChain : FailWrite(k)
  \/ \E k \in DOMAIN writeChain : SkipWrite(k)
  \/ \E upload \in UploadValues : PgCreate(upload)
  \/ \E r \in DOMAIN reqs : PgInsert(r)

SpecCreate == ApiInit /\ [][CreateNext]_vars

\* every request received so far has been answered or has failed
Quiet == \A r \in DOMAIN reqs : reqs[r].pc \in {"done", "failed"}

\* ids a DELETE names when requests come one after another: also an id no
\* post ever had
SeqDeleteIdValues == DeleteIdValues \cup { <<122>> }

\* requests in sequence: one is received only when the one before it is
\* finished
SeqNext ==
  \/ Quiet /\ FlatCreateStart
  \/ \E r \in DOMAIN reqs : FlatStoreAdd(r)
  \/ \E r \in DOMAIN reqs : FlatCreateRespond(r)
  \/ \E r \in DOMAIN reqs : FlatAwaitRejected(r)
  \/ \E auth \in AuthValues, idRaw \in SeqDeleteIdValues : Quiet /\ FlatDeleteStart(auth, idRaw)
  \/ \E r \in DOMAIN reqs : FlatDeleteRespond(r)
  \/ Quiet /\ FlatList
  \/ \E k \in DOMAIN writeChain : StartWrite(k)
  \/ \E k \in DOMAIN writeChain : WriteChunk(k)
  \/ \E k \in DOMAIN writeChain : FinishWrite(k)
  \/ \E k \in DOMAIN writeChain : FailWrite(k)
  \/ \E k \in DOMAIN writeChain : SkipWrite(k)
  \/ \E img \in removals : SettleRemoval(img)
  \/ Quiet /\ PgCreateStart
  \/ \E r \in DOMAIN reqs : PgInsert(r)
  \/ \E auth \in AuthValues, idRaw \in SeqDeleteIdValues : Quiet /\ PgDelete(auth, idRaw)
  \/ Quiet /\ PgList

SpecSeq == ApiInit /\ [][SeqNext]_vars

----------------------------------------------------------------------------
(* Properties of the request-handling specification *)

\* the ids of the records the store holds
StoreIds == IF backend = "flat" THEN Ids(filePosts) ELSE {x.id : x \in pgRows}

\* C5: after concurrent creates that all completed successfully (every
\* request of the run is a create answered 201) the store holds every
\* created record, and the record it held before is still there.
CreatedRecordsAllStored ==
  (reqs # <<>> /\ \A r \in DOMAIN reqs : reqs[r].kind = "create" /\ reqs[r].status = 201) =>
    /\ \A r \in DOMAIN reqs : Created(reqs[r].cand).id \in StoreIds
    /\ Existing.id \in StoreIds

\* C6: once a delete of id X has been answered 200, no record with id X
\* is in the store.
DeletedStaysDeleted ==
  \A r \in DOMAIN reqs :
    (reqs[r].kind = "delete" /\ reqs[r].status = 200) => Trim(reqs[r].idRaw) \notin StoreIds

\* C7: every record in the post store references an image that exists in
\* the sink.
RecordsReferenceStoredImages ==
  /\ \A i \in DOMAIN filePosts : filePosts[i].imagePath \in images
  /\ \A x \in pgRows : x.image_url \in images

Started(k) == writeChain[k].status \in {"writing", "done", "failed"}

DoneLinks == {k \in DOMAIN writeChain : writeChain[k].status = "done"}

\* C8: the writes of the posts file go through one queue: a write has
\* started only if every write queued before it has finished, so at most
\* one write is in progress, and the file holds what the last finished
\* write, in the order of the writeAll calls, wrote.
WritesSerialized ==
  /\ \A k \in DOMAIN writeChain :
       Started(k) => \A j \in 1..(k - 1) : writeChain[j].status = "done"
  /\ Cardinality({k \in DOMAIN writeChain : writeChain[k].status = "writing"}) <= 1
  /\ (fileState = "complete" /\ DoneLinks # {}) =>
       filePosts = writeChain[CHOOSE k \in DoneLinks : \A j \in DoneLinks : j <= k].posts

\* a second write is in progress, after the first finished, while a third waits
WritesSerializedWitness ==
  /\ Len(writeChain) >= 3
  /\ writeChain[1].status = "done"
  /\ writeChain[2].status = "writing"
  /\ writeChain[3].status = "queued"

\* C9: a read of the posts file, also one made while a write is pending or
\* in progress, finds a complete document.
ReadsSeeCompleteDocument ==
  \A r \in DOMAIN reqs : reqs[r].saw \in {"none", "complete"}

\* the bearer credential the deployment's handler reads from the header
Credential(r) ==
  IF backend = "flat" THEN FlatBearerToken(reqs[r].auth) ELSE getBearerToken(reqs[r].auth)

\* the precedence of the DELETE endpoint's answers; whether a record has
\* the id is what the store operation of the request found
ExpectedDeleteStatus(r) ==
  IF adminToken = <<>> THEN 403
  ELSE IF Credential(r) # adminToken THEN 401
  ELSE IF Trim(reqs[r].idRaw) = <<>> THEN 400
  ELSE IF Trim(reqs[r].idRaw) \notin reqs[r].snap THEN 404
  ELSE 200

\* C10: a DELETE is answered 403 when ADMIN_TOKEN is empty, else 401 when
\* the bearer token is absent or differs, else 400 when the id is empty,
\* else 404 when no record has the id, else 200; and only a request that is
\* to be answered 200 waits for the store.
DeleteStatusPrecedence ==
  \A r \in DOMAIN reqs :
    reqs[r].kind = "delete" =>
      /\ reqs[r].pc = "done" => reqs[r].status = ExpectedDeleteStatus(r)
      /\ reqs[r].pc = "await" => ExpectedDeleteStatus(r) = 200

\* one run with a DELETE answered 401, one answered 200 and one answered 404
DeleteStatusWitness ==
  /\ \E r \in DOMAIN reqs : reqs[r].kind = "delete" /\ reqs[r].status = 401
  /\ \E r \in DOMAIN reqs : reqs[r].kind = "delete" /\ reqs[r].status = 200
  /\ \E r \in DOMAIN reqs : reqs[r].kind = "delete" /\ reqs[r].status = 404

\* a step in which a DELETE is received and answered 403, 401, 400 or 404
RejectedDeleteStep ==
  /\ Len(reqs') = Len(reqs) + 1
  /\ reqs'[Len(reqs')].kind = "delete"
  /\ reqs'[Len(reqs')].status \in {403, 401, 400, 404}

\* the request presented the configured, non-empty ADMIN_TOKEN
Authorised(r) == adminToken # <<>> /\ Credential(r) = adminToken

\* the DELETE request r got as far as the store's remove operation
ReachedStore(r) ==
  reqs[r].kind = "delete" /\ (reqs[r].pc = "await" \/ reqs[r].status \in {200, 404})

AllowedCreateStatus(upload) ==
  IF ~upload.present THEN {400}
  ELSE LET rejected == (IF mimeToExt(upload.mime) = "" THEN {415} ELSE {})
                         \cup (IF upload.size > MAX_UPLOAD_BYTES THEN {413} ELSE {})
       IN  IF rejected = {} THEN {201} ELSE rejected

\* C12: a create is answered 400 without a photo file, 415 for a type
\* that is not JPEG/PNG/WebP/GIF/AVIF, 413 for a file over the size cap and
\* otherwise 201; a create answered 400, 415 or 413 stored no image and
\* queued no record.
CreateStatusByUpload ==
  \A r \in DOMAIN reqs :
    (reqs[r].kind = "create" /\ reqs[r].pc = "done") =>
      /\ reqs[r].status \in AllowedCreateStatus(reqs[r].upload)
      /\ reqs[r].status \in {400, 415, 413} =>
           /\ Created(reqs[r].cand).id \notin images \cup StoreIds
           /\ reqs[r].link = 0

\* no write of the posts file has failed
NoWriteFailed == \A k \in DOMAIN writeChain : writeChain[k].status # "failed"

\* an earlier DELETE of the same id was answered 200
DeletedBefore(r) ==
  \E q \in 1..(r - 1) :
    /\ reqs[q].kind = "delete" /\ reqs[q].status = 200
    /\ Trim(reqs[q].idRaw) = Trim(reqs[r].idRaw)

\* C13: with requests in sequence and no failed write, an authorised DELETE
\* never ends in an error; it is answered 200 when it names the existing
\* post and no earlier DELETE removed it, and 404 otherwise (an id no post
\* has, or the second DELETE of the same id); a DELETE answered 404 queued
\* no write and removed no image.
DeleteTwiceNotFound ==
  NoWriteFailed =>
    \A r \in DOMAIN reqs :
      (reqs[r].kind = "delete" /\ Authorised(r) /\ Trim(reqs[r].idRaw) # <<>>) =>
        /\ reqs[r].pc # "failed"
        /\ reqs[r].pc = "done" =>
             reqs[r].status =
               (IF Trim(reqs[r].idRaw) = Existing.id /\ ~DeletedBefore(r) THEN 200 ELSE 404)
        /\ reqs[r].status = 404 => reqs[r].link = 0 /\ reqs[r].removed = <<>>

\* the existing post deleted (200), deleted again (404), and a DELETE of an
\* id no post has (404)
DeleteTwiceWitness ==
  /\ Len(reqs) = 3
  /\ reqs[1].kind = "delete" /\ reqs[1].status = 200
  /\ reqs[2].kind = "delete" /\ reqs[2].status = 404 /\ reqs[2].idRaw = reqs[1].idRaw
  /\ reqs[3].kind = "delete" /\ reqs[3].status = 404 /\ reqs[3].idRaw = <<122>>

----------------------------------------------------------------------------
(* Properties of the codec specification *)

\* C14: for every valid (createdAt, id) pair of a backend (a number in the
\* flat-file backend, an ISO instant in the Postgres backend, any string
\* as id), the backend's parseCursor of makeCursor({createdAt, id}) is
\* exactly {createdAt, id}.
CursorRoundTrip ==
  (codec.made /\ codec.pc \in {"list", "done"}) =>
    codec.parsed = [ok |-> TRUE, createdAt |-> codec.createdAt, id |-> codec.id]

\* a Postgres cursor whose id holds a quote and a backslash went through
\* makeCursor and parseCursor
CursorRoundTripWitness ==
  /\ codec.made /\ codec.pc = "done" /\ codec.store = "pg"
  /\ codec.createdAt = JStr(toISOString(61001))
  /\ codec.id = JStr(<<97, 34, 98, 92>>)
  /\ codec.parsed.ok

StoreKeys(store) == IF store = "flat" THEN FlatKeys ELSE PgKeys

CursorKey ==
  [at |-> IF codec.store = "flat" THEN codec.createdAt.n
          ELSE DateParse(codec.createdAt.s) * MicrosPerMs,
   id |-> codec.id.s]

\* the records strictly after the cursor in the direction of the sort
AfterCursor ==
  { k \in StoreKeys(codec.store) :
      IF reqSort = StrVal(OLDEST) THEN KeyLess(CursorKey, k) ELSE KeyLess(k, CursorKey) }

\* C19: the response to a request with a valid cursor (c, i) holds the
\* first limit records, in sort order, of those whose (createdAt, id) is
\* strictly less than (c, i) for newest and strictly greater for oldest;
\* the record equal to the cursor is not among them.
CursorStrictlyAfter ==
  (codec.made /\ codec.pc = "done") =>
    /\ codec.listed.posts =
         SubSeq(InOrder(AfterCursor), 1, Min(EffectiveLimit, Cardinality(AfterCursor)))
    /\ \A i \in DOMAIN codec.listed.posts :
         KeyOf(StoreKeys(codec.store), codec.listed.posts[i]) # CursorKey

----------------------------------------------------------------------------
(* Properties of the insert specification *)

\* the posts of the pages so far that existed when the traversal started
ReturnedOfStart(trav) == SelectSeq(Concat(trav.pages), LAMBDA id : id \in trav.start)

\* what the traversal has returned of the posts that existed at its start
\* is a prefix of those posts in sort order, and all of them when it ends
StableTraversal(trav, keys) ==
  LET startKeys == {k \in keys : k.id \in trav.start}
  IN  /\ IsPrefix(ReturnedOfStart(trav), InOrder(startKeys))
      /\ trav.done => ReturnedOfStart(trav) = InOrder(startKeys)

\* a post has been created since the traversals started
PostCreatedSince == Len(filePosts) > Cardinality(flatTrav.start)

\* C20: when posts are created between the page requests of a traversal,
\* the traversal still returns every post that existed at its start
\* exactly once, in either sort order and in both backends.
StableUnderInserts ==
  PostCreatedSince =>
    /\ StableTraversal(flatTrav, FlatKeys)
    /\ StableTraversal(pgTrav, PgKeys)

----------------------------------------------------------------------------
(* Further properties of the listing specification *)

\* the rows of the database whose name, type and caption contain the term
PgTermKeys ==
  { [at |-> r.created_at, id |-> r.id] :
      r \in { x \in pgRows : TextMatches(x.pet_name, x.pet_type, x.caption) } }

FirstRows(keys, limit) == SubSeq(InOrder(keys), 1, Min(limit, Cardinality(keys)))

\* C21: the first page of a list request holds exactly the records whose
\* lower-cased petName + ' ' + petType + ' ' + caption contains the
\* lower-cased, trimmed search term as a literal substring, up to the
\* limit and in sort order; an empty or absent term filters nothing.
SearchIsLiteralSubstring ==
  /\ flatTrav.pages # <<>> =>
       flatTrav.pages[1].posts = FirstRows(FlatMatchingKeys, FlatLimit(reqLimit))
  /\ pgTrav.pages # <<>> =>
       pgTrav.pages[1].posts = FirstRows(PgTermKeys, PgSafeLimit(reqLimit))

----------------------------------------------------------------------------
(* The fields specification: creates, one after another and all of them    *)
(* successful, whose text fields are what a client may submit.             *)

Rep(c, n) == [i \in 1..n |-> c]

\* a field that arrives more than once: an array of strings
ListVal(items) == [t |-> "array", v |-> items]

\* values of a text field of the multipart body whose limit is max:
\* absent, empty, blank, padded, repeated, of max characters and of more
FieldValues(max) ==
  { Undefined, StrVal(<<>>), StrVal(<<32, 9>>), StrVal(<<32, 67, 97, 116, 32>>),
    ListVal(<<<<68, 111, 103>>, <<>>>>),
    StrVal(Rep(65, max)), StrVal(Rep(32, 2) \o Rep(68, max + 1) \o <<32>>) }

\* the default pet type
Other == <<79, 116, 104, 101, 114>>

\* server.js: safeText(req.body.petName, 40), safeText(req.body.petType, 24)
\* || 'Other', safeText(req.body.caption, 240)
FlatFields(body) ==
  [petName |-> safeText(body.petName, 40),
   petType |-> IF safeText(body.petType, 24) = <<>> THEN Other
               ELSE safeText(body.petType, 24),
   caption |-> safeText(body.caption, 240)]

RECURSIVE JoinComma(_)
JoinComma(items) ==
  IF items = <<>> THEN <<>>
  ELSE IF Len(items) = 1 THEN items[1]
  ELSE items[1] \o <<44>> \o JoinComma(Tail(items))

\* posts.js: fields?.petName?.toString?.() || ''
FieldString(value) ==
  IF value.t = "undefined" THEN StrVal(<<>>)
  ELSE IF value.t = "string" THEN value
  ELSE StrVal(JoinComma(value.v))

\* insertPost: safePetName, safePetType, safeCaption
insertPostFields(body) ==
  [pet_name |-> safeText(FieldString(body.petName), 40),
   pet_type |-> IF safeText(FieldString(body.petType), 24) = <<>> THEN Other
                ELSE safeText(FieldString(body.petType), 24),
   caption |-> safeText(FieldString(body.caption), 240)]

FieldsInit ==
  /\ ApiInit
  /\ adminToken = <<>>

\* a create that was answered 201, with the fields it submitted
FieldsReq(r, body) == [kind |-> "create", pc |-> "done", cand |-> r, body |-> body, status |-> 201]

\* app.post('/api/posts') from the sanitation to the 201
FlatCreateFields(body) ==
  /\ backend = "flat"
  /\ Len(reqs) < MaxReqs
  /\ LET r == Len(reqs) + 1
         f == FlatFields(body)
     IN  /\ filePosts' = Append(filePosts,
                                [FlatRecord(Created(r)) EXCEPT !.petName = f.petName,
                                                                !.petType = f.petType,
                                                                !.caption = f.caption])
         /\ images' = images \cup {Created(r).id}
         /\ reqs' = Append(reqs, FieldsReq(r, body))
  /\ UNCHANGED <<pgRows, backend, adminToken, fileState, writeChain, removals>>
  /\ listUnchanged

\* the POST branch of api/posts.js from the field strings to the 201
PgCreateFields(body) ==
  /\ backend = "pg"
  /\ Len(reqs) < MaxReqs
  /\ LET r == Len(reqs) + 1
         f == insertPostFields(body)
     IN  /\ pgRows' = pgRows \cup {[PgRow(Created(r)) EXCEPT !.pet_name = f.pet_name,
                                                            !.pet_type = f.pet_type,
                                                            !.caption = f.caption]}
         /\ images' = images \cup {Created(r).id}
         /\ reqs' = Append(reqs, FieldsReq(r, body))
  /\ UNCHANGED <<filePosts, backend, adminToken, fileState, writeChain, removals>>
  /\ listUnchanged

\* a body with one field of interest; the other two are plain
Bodies ==
  { [petName |-> a, petType |-> StrVal(<<32>>), caption |-> Undefined] :
      a \in FieldValues(40) }
    \cup { [petName |-> StrVal(<<82>>), petType |-> b, caption |-> StrVal(<<120>>)] :
      b \in FieldValues(24) }
    \cup { [petName |-> Undefined, petType |-> StrVal(<<100>>), caption |-> c] :
      c \in FieldValues(240) }

FieldsNext ==
  \/ \E body \in Bodies : FlatCreateFields(body)
  \/ \E body \in Bodies : PgCreateFields(body)

SpecFields == FieldsInit /\ [][FieldsNext]_vars

----------------------------------------------------------------------------
(* Properties of the fields specification *)

Blank(s) == Trim(s) = <<>>

\* the record or row create r wrote, with the field names of the contract
Written(r) ==
  IF backend = "flat"
  THEN LET p == filePosts[CHOOSE i \in DOMAIN filePosts : filePosts[i].id = Created(r).id]
       IN  [petName |-> p.petName, petType |-> p.petType, caption |-> p.caption]
  ELSE LET x == CHOOSE y \in pgRows : y.id = Created(r).id
       IN  [petName |-> x.pet_name, petType |-> x.pet_type, caption |-> x.caption]

\* the submitted pet type is not a string, or is empty or blank; the
\* serverless handler reads a field through its toString
NoTypeGiven(body) ==
  IF backend = "flat" THEN body.petType.t # "string" \/ Blank(body.petType.v)
  ELSE Blank(FieldString(body.petType).v)

\* C22: every record a create wrote has a petName of at most 40
\* characters, a petType of at most 24 characters that is never empty, and
\* "Other" when the submitted type is empty, blank or not a string, and a
\* caption of at most 240 characters, in both backends.
FieldsWithinBounds ==
  \A r \in DOMAIN reqs :
    /\ Len(Written(r).petName) <= 40
    /\ Len(Written(r).petType) \in 1..24
    /\ Len(Written(r).caption) <= 240
    /\ NoTypeGiven(reqs[r].body) => Written(r).petType = Other

\* creates with a name of 41 characters between blanks, with a blank
\* type and with a caption of 241 characters have been written
FieldsWitness ==
  /\ Len(reqs) = 3
  /\ reqs[1].body.petName = StrVal(Rep(32, 2) \o Rep(68, 41) \o <<32>>)
  /\ Written(1).petName = Rep(68, 40)
  /\ reqs[2].body.petType = StrVal(<<32, 9>>)
  /\ Written(2).petType = Other
  /\ reqs[3].body.caption = StrVal(Rep(32, 2) \o Rep(68, 241) \o <<32>>)
  /\ Written(3).caption = Rep(68, 240)


----------------------------------------------------------------------------
(* Removal of the image after a record is deleted *)

\* the DELETE request r is answered 200 in this step
DeleteAnswered(r) ==
  /\ r \in DOMAIN reqs'
  /\ reqs'[r].kind = "delete" /\ reqs'[r].status = 200
  /\ r \in DOMAIN reqs => reqs[r].status # 200

\* the ids of the records the active store holds after this step
StoredIdsNext ==
  IF backend = "flat" THEN Ids(filePosts') ELSE {x.id : x \in pgRows'}

\* C23: the step that answers a DELETE 200 issues the removal of the
\* record's image, once, and does not wait for it: the image is still
\* stored and the record is gone; no other step issues a removal; the
\* answer of a DELETE never changes afterwards; and the step in which a
\* removal settles, with the image gone or kept, changes neither the
\* requests nor the posts file, its queued writes or the table.
DeleteDoesNotWaitForRemoval ==
  /\ [][\A r \in DOMAIN reqs' :
          DeleteAnswered(r) =>
            /\ removals' = IF reqs'[r].removed # <<>>
                           THEN removals \cup {reqs'[r].removed} ELSE removals
            /\ images' = images
            /\ Trim(reqs'[r].idRaw) \notin StoredIdsNext]_vars
  /\ [][~(removals' \subseteq removals) =>
          \E r \in DOMAIN reqs' : DeleteAnswered(r)]_vars
  /\ [][\A r \in DOMAIN reqs :
          reqs[r].kind = "delete" /\ reqs[r].status # 0 => reqs'[r] = reqs[r]]_vars
  /\ [][removals' # removals /\ removals' \subseteq removals =>
          /\ UNCHANGED <<filePosts, pgRows, fileState, writeChain, reqs>>
          /\ images' \in {images, images \ (removals \ removals')}]_vars

\* a DELETE was answered 200, the removal of its image has failed (the
\* image is still stored and no removal is pending) and the record has not
\* come back
RemovalFailedWitness ==
  \E r \in DOMAIN reqs :
    /\ reqs[r].kind = "delete" /\ reqs[r].status = 200
    /\ reqs[r].removed # <<>>
    /\ reqs[r].removed \notin removals
    /\ reqs[r].removed \in images
    /\ Trim(reqs[r].idRaw) \notin
         (IF backend = "flat" THEN Ids(filePosts) ELSE {x.id : x \in pgRows})


----------------------------------------------------------------------------
(* Answers to requests whose handling fails *)

\* the error middleware of backend/server.js answers a request whose
\* handler ended with an error it was handed: 500 'Server error.'. An async
\* handler's rejection is handed to it by an Express release that forwards
\* rejected promises (5.x); a 4.x release drops the rejection and this step
\* never happens. The release is not fixed by the repository's sources.
ErrorMiddleware(r) ==
  /\ reqs[r].pc = "failed"
  /\ reqs' = [reqs EXCEPT ![r].pc = "done", ![r].status = 500]
  /\ UNCHANGED <<filePosts, pgRows, backend, adminToken, fileState, writeChain,
                 images, removals>>
  /\ listUnchanged

AnswerNext ==
  \/ SeqNext
  \/ \E r \in DOMAIN reqs : ErrorMiddleware(r)

\* the handlers, the write queue and the removals keep running; nothing
\* promises that a dropped rejection is ever answered
SpecAnswer == ApiInit /\ [][AnswerNext]_vars /\ WF_vars(SeqNext)

\* C24: every request that was received is eventually answered, its answer
\* never changes once given, and a request whose handling failed is
\* eventually answered 500.
EveryRequestAnswered ==
  /\ \A r \in 1..MaxReqs :
       [](r \in DOMAIN reqs => <>(r \in DOMAIN reqs /\ reqs[r].status # 0))
  /\ \A r \in 1..MaxReqs :
       [](r \in DOMAIN reqs /\ reqs[r].pc = "failed"
            => <>(r \in DOMAIN reqs /\ reqs[r].status = 500))
  /\ [][\A r \in DOMAIN reqs :
          reqs[r].status # 0 => reqs'[r].status = reqs[r].status]_vars


----------------------------------------------------------------------------
(* The write queue after a failed write *)

\* C25: a write that a create or delete queues is carried out even when a
\* write before it has failed: no request's write is rejected without
\* having been attempted.
LaterWritesSurviveFailure ==
  \A r \in DOMAIN reqs :
    reqs[r].link # 0 => writeChain[reqs[r].link].status # "rejected"


----------------------------------------------------------------------------
(* Resolution of the Postgres cursor *)

\* the matching rows strictly after key k in the direction of the sort
PgRowsAfter(k) ==
  { o \in PgMatchingKeys :
      IF reqSort = StrVal(OLDEST) THEN KeyLess(k, o) ELSE KeyLess(o, k) }

\* C26: the nextCursor of a Postgres page carries the id and the stored
\* created_at of the page's last row, microseconds included, and the page
\* requested with it leaves that row out and holds the first rows after it.
PgCursorIsExact ==
  \A i \in DOMAIN pgTrav.pages :
    LET page == pgTrav.pages[i]
    IN  page.nextCursor # NoCursor =>
          LET last == KeyOf(PgKeys, page.posts[Len(page.posts)])
          IN  /\ page.nextCursor.is = last.id
              /\ IsoToTimestamptz(page.nextCursor.cn) = last.at
              /\ i < Len(pgTrav.pages) =>
                   /\ \A j \in DOMAIN pgTrav.pages[i + 1].posts :
                        pgTrav.pages[i + 1].posts[j] # last.id
                   /\ pgTrav.pages[i + 1].posts =
                        FirstRows(PgRowsAfter(last), PgSafeLimit(reqLimit))


----------------------------------------------------------------------------
(* The two orders of the flat-file listing: items.sort compares ids with   *)
(* localeCompare, the cursor filter with < and >.  The specification lists *)
(* stores whose ids are not only what uid() returns.                       *)

\* ids for the comparison of the two orders: '2b', 'a0' and '0f' as uid()
\* writes them (lower-case hexadecimal), 'B1' with an upper-case letter and
\* '_a' with an underscore; all but '0f' share one createdAt
OrderCandidates ==
  << [id |-> <<50, 98>>, ms |-> 200, petName |-> <<97>>, petType |-> <<>>, caption |-> <<>>],
     [id |-> <<97, 48>>, ms |-> 200, petName |-> <<98>>, petType |-> <<>>, caption |-> <<>>],
     [id |-> <<48, 102>>, ms |-> 100, petName |-> <<99>>, petType |-> <<>>, caption |-> <<>>],
     [id |-> <<66, 49>>, ms |-> 200, petName |-> <<100>>, petType |-> <<>>, caption |-> <<>>],
     [id |-> <<95, 97>>, ms |-> 200, petName |-> <<101>>, petType |-> <<>>, caption |-> <<>>] >>

RECURSIVE PickOrder(_, _)
PickOrder(chosen, i) ==
  IF i > Len(OrderCandidates) THEN <<>>
  ELSE (IF i \in chosen THEN <<FlatRecord(OrderCandidates[i])>> ELSE <<>>)
         \o PickOrder(chosen, i + 1)

OrderInit ==
  /\ ApiIdle
  /\ \E chosen \in SUBSET (1..Len(OrderCandidates)) : filePosts = PickOrder(chosen, 1)
  /\ pgRows = {}
  /\ reqLimit \in InsertLimitValues
  /\ reqSort \in SortValues
  /\ reqQ = Undefined
  /\ flatTrav = NewTraversal
  /\ pgTrav = NewTraversal
  /\ codec = CodecIdle

OrderNext == FlatListPage

SpecOrder == OrderInit /\ [][OrderNext]_vars

\* the items as items.sort leaves them
SortedItems == JsSort(filePosts, FlatSort(reqSort))

\* what the cursor filter keeps for the cursor made from the item at
\* position i
KeptAfter(i) ==
  LET cursor == FlatParseCursor(FlatMakeCursor(SortedItems[i].createdAt, SortedItems[i].id))
  IN  SelectSeq(SortedItems, LAMBDA p : FlatCursorKeeps(p, cursor, FlatSort(reqSort)))

UuidShaped(id) == \A k \in DOMAIN id : id[k] \in ({45} \cup (48..57) \cup (97..102))

----------------------------------------------------------------------------
(* The removal specification: the two traversals of the insert             *)
(* specification, with the post their cursor names deleted between two     *)
(* page requests.                                                          *)

\* a DELETE of the post the flat-file traversal's cursor names, run to its
\* end: store.remove splices the record out
FlatRemoveCursorPost ==
  /\ flatTrav.cursor # NoCursor
  /\ FindIndex(filePosts, flatTrav.cursor.is) # 0
  /\ filePosts' = Splice(filePosts, FindIndex(filePosts, flatTrav.cursor.is))
  /\ UNCHANGED <<pgRows, reqLimit, reqSort, reqQ, flatTrav, pgTrav, codec>>
  /\ UNCHANGED apiVars

\* the same for the Postgres traversal: deletePost deletes the row
PgRemoveCursorPost ==
  /\ pgTrav.cursor # NoCursor
  /\ \E r \in pgRows : r.id = pgTrav.cursor.is
  /\ pgRows' = {r \in pgRows : r.id # pgTrav.cursor.is}
  /\ UNCHANGED <<filePosts, reqLimit, reqSort, reqQ, flatTrav, pgTrav, codec>>
  /\ UNCHANGED apiVars

RemoveNext == FlatListPage \/ PgListPage \/ FlatRemoveCursorPost \/ PgRemoveCursorPost

SpecRemove == InsertInit /\ [][RemoveNext]_vars

\* a post that existed when the traversal started is no longer stored
RemovedSince(trav, keys) == \E id \in trav.start : \A k \in keys : k.id # id

\* what the traversal has returned of the posts still stored is a prefix of
\* those posts in sort order, and all of them when it ends
TraversalOfRemaining(trav, keys) ==
  LET got == SelectSeq(Concat(trav.pages), LAMBDA id : \E k \in keys : k.id = id)
  IN  /\ IsPrefix(got, InOrder(keys))
      /\ trav.done => got = InOrder(keys)

\* C28: when the post a cursor names is deleted between two page requests,
\* the traversal goes on after the cursor's key: every post still stored is
\* returned once, in sort order, none skipped and none twice, in both
\* backends.
StableUnderRemoval ==
  /\ RemovedSince(flatTrav, FlatKeys) => TraversalOfRemaining(flatTrav, FlatKeys)
  /\ RemovedSince(pgTrav, PgKeys) => TraversalOfRemaining(pgTrav, PgKeys)


----------------------------------------------------------------------------
(* The public feed of the page: fetchPublicPage of assets/js/pet-photos-   *)
(* app.js and the listeners that call it.  The page talks to the           *)
(* serverless deployment, whose table holds two posts.  A displayed post   *)
(* remembers the q and sort of the request that fetched it.                *)

\* the user's actions in one run
MaxEvents == 4

\* what the user types into the search box and picks in the sort menu
SearchInputs == { <<>>, <<99, 32>> }
SortInputs == { NEWEST, OLDEST }

\* the query fetchPublicPage builds from the state as it is when called:
\* limit 20, sort, q unless the filter is empty, and the cursor; "data" is
\* the body the server answers it with (the table does not change while the
\* page is open, so the answer is settled when the request is sent)
PublicRequest(s) ==
  [sort |-> s.publicSort, q |-> s.publicFilter, cursor |-> s.publicCursor,
   data |-> PgGetPosts(pgRows, StrVal(<<50, 48>>), StrVal(s.publicSort),
                       IF s.publicFilter = <<>> THEN Undefined ELSE StrVal(s.publicFilter),
                       s.publicCursor)]

\* fetchPublicPage past its guard, up to the call of fetch: with reset the
\* cursor, the has-more flag and the posts start over
StartFetch(s, reset) ==
  LET r == IF reset
           THEN [s EXCEPT !.publicCursor = NoCursor, !.publicHasMore = TRUE,
                          !.publicPosts = <<>>]
           ELSE s
  IN  [r EXCEPT !.publicIsLoading = TRUE, !.fetches = Append(r.fetches, PublicRequest(r))]

\* a loader without the publicIsLoading guard
fetchPublicPageUnguarded(s, reset) == StartFetch(s, reset)

\* fetchPublicPage({ reset }) up to its await
fetchPublicPage(s, reset) == IF s.publicIsLoading THEN s ELSE StartFetch(s, reset)

clientUnchanged ==
  UNCHANGED <<filePosts, pgRows, reqLimit, reqSort, reqQ, flatTrav, pgTrav, backend,
              adminToken, fileState, writeChain, images, removals, reqs, codec>>

ClientInit ==
  /\ state = StateIdle
  /\ backend = "pg"
  /\ adminToken = <<>>
  /\ fileState = "complete"
  /\ writeChain = <<>>
  /\ images = {}
  /\ removals = {}
  /\ reqs = <<>>
  /\ filePosts = <<>>
  /\ pgRows = {PgRow(Candidates[1]), PgRow(Candidates[2])}
  /\ reqLimit = Undefined
  /\ reqSort = Undefined
  /\ reqQ = Undefined
  /\ flatTrav = NewTraversal
  /\ pgTrav = NewTraversal
  /\ codec = CodecIdle

\* the tab listener: the public tab is opened while it shows no posts
PublicTabClick ==
  /\ state.events < MaxEvents
  /\ state.publicPosts = <<>>
  /\ state' = [fetchPublicPage(state, TRUE) EXCEPT !.events = state.events + 1]
  /\ clientUnchanged

\* the input listener of the search box
PublicSearchInput(value) ==
  /\ state.events < MaxEvents
  /\ state' = [fetchPublicPage([state EXCEPT !.publicFilter = Trim(value)], TRUE)
                 EXCEPT !.events = state.events + 1]
  /\ clientUnchanged

\* the change listener of the sort menu
PublicSortChange(value) ==
  /\ state.events < MaxEvents
  /\ state' = [fetchPublicPage([state EXCEPT !.publicSort = value], TRUE)
                 EXCEPT !.events = state.events + 1]
  /\ clientUnchanged

\* the click listener of "Load more"; renderPublic disables the button
\* while a page is loading or there are no more posts
PublicLoadMoreClick ==
  /\ state.events < MaxEvents
  /\ ~state.publicIsLoading
  /\ state.publicHasMore
  /\ state' = [fetchPublicPage(state, FALSE) EXCEPT !.events = state.events + 1]
  /\ clientUnchanged

Without(seq, k) == SubSeq(seq, 1, k - 1) \o SubSeq(seq, k + 1, Len(seq))

\* the response arrives with res.ok: the rest of the try block and finally
FetchResolves(k) ==
  /\ k \in DOMAIN state.fetches
  /\ LET req == state.fetches[k]
         posts == [i \in DOMAIN req.data.posts |->
                     [id |-> req.data.posts[i], q |-> req.q, sort |-> req.sort]]
     IN  state' = [state EXCEPT !.publicPosts = state.publicPosts \o posts,
                                !.publicCursor = req.data.nextCursor,
                                !.publicHasMore = req.data.nextCursor # NoCursor,
                                !.publicIsLoading = FALSE,
                                !.fetches = Without(state.fetches, k),
                                !.lastOk = TRUE]
  /\ clientUnchanged

\* fetch rejects or the status is not ok: catch and finally
FetchRejects(k) ==
  /\ k \in DOMAIN state.fetches
  /\ state' = [state EXCEPT !.publicIsLoading = FALSE,
                            !.fetches = Without(state.fetches, k),
                            !.lastOk = FALSE]
  /\ clientUnchanged

FetchSettles == \E k \in DOMAIN state.fetches : FetchResolves(k) \/ FetchRejects(k)

ClientNext ==
  \/ PublicTabClick
  \/ \E value \in SearchInputs : PublicSearchInput(value)
  \/ \E value \in SortInputs : PublicSortChange(value)
  \/ PublicLoadMoreClick
  \/ \E k \in DOMAIN state.fetches : FetchResolves(k)
  \/ \E k \in DOMAIN state.fetches : FetchRejects(k)

\* a request that was sent is answered or fails in the end
SpecClient == ClientInit /\ [][ClientNext]_vars /\ WF_vars(FetchSettles)

\* C29: the loader has at most one request in flight, and publicIsLoading
\* says whether there is one; a listener that runs while a page is loading
\* sends no request and changes nothing but the filter or sort it stores;
\* and a page that is loading stops loading, whether its request succeeds
\* or fails.
OneRequestInFlight ==
  /\ [](Len(state.fetches) <= 1 /\ (state.publicIsLoading <=> state.fetches # <<>>))
  /\ [][(state.publicIsLoading /\ state'.events # state.events) =>
          state' = [state EXCEPT !.events = state'.events,
                                 !.publicFilter = state'.publicFilter,
                                 !.publicSort = state'.publicSort]]_vars
  /\ [](state.publicIsLoading => <>(~state.publicIsLoading))

\* a page is loading and the search box was changed since its request was
\* sent: fetchPublicPage was called while publicIsLoading was true
CalledWhileLoadingWitness ==
  /\ state.publicIsLoading
  /\ Len(state.fetches) = 1
  /\ state.fetches[1].q # state.publicFilter

\* C30: when no page is loading and the last request succeeded, every
\* displayed post was fetched with the filter and the sort the state holds.
PublicPostsMatchControls ==
  (~state.publicIsLoading /\ state.lastOk) =>
    \A i \in DOMAIN state.publicPosts :
      /\ state.publicPosts[i].q = state.publicFilter
      /\ state.publicPosts[i].sort = state.publicSort

====
